---- MODULE Spec2Model ----
(***************************************************************************)
(* A model of the aic compiler's code generator (src/src/codegen.rs): the  *)
(* scope stack Env, and CodeGen's lowering of statements and expressions   *)
(* into an IR unit of functions, basic blocks and instructions.            *)
(*                                                                         *)
(* Errors are anyhow strings in the source; the model names each by the    *)
(* kind the specification's taxonomy gives it:                             *)
(*   "Variable '..' already declared in this scope"  DuplicateBinding      *)
(*   "Variable '..' not found", "Function '..' not found"  UnboundName     *)
(*   "Type mismatch in ..."                          TypeMismatch          *)
(*   "Cannot assign to immutable variable '..'"      ImmutableAssignment   *)
(*   "Void type cannot be used ..", "String type not implemented",         *)
(*   "Unsupported type for default value"            UnsupportedType       *)
(***************************************************************************)
EXTENDS Integers, Sequences, FiniteSets, TLC

VARIABLES
    scopes,     \* Env.scopes: Vec<HashMap<&str, VariableInfo>>
    env_ret,    \* the last Env operation called directly and what it returned
    funcs,      \* Module: the functions, in the order add_function made them
    blocks,     \* Context: every basic block append_basic_block made
    insert,     \* Builder: the block instructions are appended to (0: none)
    stack,      \* the call stack of gen_block / gen_stmt activations
    ast,        \* the part of the Program gen_block's loops have reached
    limit,      \* the most statements the Program given to compile has
    src,        \* parse's src: the characters of the source text
    tokens,     \* the (token, span) pairs the lexer yields for src
    program,    \* what parse returned: the Program, or that it has errors
    result      \* what compile has returned ("running": not yet)

vars == <<scopes, env_ret, funcs, blocks, insert, stack, ast, limit, src,
          tokens, program, result>>

\* parse has not returned.
NoProgram == [ok |-> FALSE, statements |-> << >>, errors |-> 0]

(***************************************************************************)
(* Bounds of the model.                                                    *)
(***************************************************************************)
\* The deepest scope stack the Env specification builds.
MaxScopes == 3
\* The number of statements of a Program (over all its blocks).
MaxStmts == 3
\* The number of statements of a Program made of If, Return and tail
\* expressions only.
MaxIfStmts == 4
\* The number of statements of a Program made of declarations, assignments
\* and one tail expression per statement list.
MaxExprStmts == 3
\* The number of lexemes of a token sequence given to the parser, the head
\* of a function declaration up to its "{" counting for one.
MaxLexemes == 5
\* The number of characters of a source text given to parse.
MaxSrcLen == 4

Names == {"x", "y"}

Last(s) == s[Len(s)]
Front(s) == SubSeq(s, 1, Len(s) - 1)

(***************************************************************************)
(* Env                                                                     *)
(***************************************************************************)
\* HashMap::new()
EmptyMap == << >>

\* HashMap::insert: the map with key k bound to v (a bound k is rebound).
MapInsert(m, k, v) == [n \in (DOMAIN m) \cup {k} |-> IF n = k THEN v ELSE m[n]]

VariableInfo(ptr, ty, is_mutable) ==
    [ptr |-> ptr, ty |-> ty, is_mutable |-> is_mutable]

\* Env::new
EnvNew == <<EmptyMap>>

push_scope(sc) == Append(sc, EmptyMap)

\* A pop_scope that leaves the stack as it is.
pop_scope_keeps(sc) == sc

pop_scope(sc) == Front(sc)

\* A declare_var that refuses a name bound in any scope of the stack.
declare_var_any_scope(sc, name, ptr, ty, is_mutable) ==
    [scopes |-> [sc EXCEPT ![Len(sc)] =
                    MapInsert(@, name, VariableInfo(ptr, ty, is_mutable))],
     err |-> IF \E i \in 1..Len(sc) : name \in DOMAIN sc[i]
             THEN "DuplicateBinding" ELSE "none"]

\* Env::declare_var: insert into the top scope; an insert that replaced a
\* binding (is_some) is the error, and the replacement has happened by then.
declare_var(sc, name, ptr, ty, is_mutable) ==
    [scopes |-> [sc EXCEPT ![Len(sc)] =
                    MapInsert(@, name, VariableInfo(ptr, ty, is_mutable))],
     err |-> IF name \in DOMAIN Last(sc) THEN "DuplicateBinding" ELSE "none"]

NoInfo == VariableInfo(<< >>, "none", FALSE)

RECURSIVE resolve_from(_, _, _)
\* The loop of resolve_var over scopes.iter().rev(), at scope i.
resolve_from(sc, name, i) ==
    IF i = 0 THEN [err |-> "UnboundName", info |-> NoInfo]
    ELSE IF name \in DOMAIN sc[i] THEN [err |-> "none", info |-> sc[i][name]]
    ELSE resolve_from(sc, name, i - 1)

RECURSIVE resolve_outermost(_, _, _)
resolve_outermost(sc, name, i) ==
    IF i > Len(sc) THEN [err |-> "UnboundName", info |-> NoInfo]
    ELSE IF name \in DOMAIN sc[i] THEN [err |-> "none", info |-> sc[i][name]]
    ELSE resolve_outermost(sc, name, i + 1)

\* A resolve_var that searches from the bottom of the stack.
resolve_var_outermost_first(sc, name) == resolve_outermost(sc, name, 1)

\* Env::resolve_var
resolve_var(sc, name) == resolve_from(sc, name, Len(sc))

(***************************************************************************)
(* The Env operations called one by one, on every stack they can build.    *)
(***************************************************************************)
\* The slots the Env specification declares names with.
EnvSlots == {VariableInfo(<<1>>, "i32", FALSE),
             VariableInfo(<<2>>, "i32", TRUE),
             VariableInfo(<<3>>, "i1", TRUE)}

NoCall == [op |-> "new", name |-> "", err |-> "none", info |-> NoInfo]

InitEnv ==
    /\ scopes = EnvNew
    /\ env_ret = NoCall
    /\ funcs = << >>
    /\ blocks = << >>
    /\ insert = 0
    /\ stack = << >>
    /\ ast = << >>
    /\ limit = 0
    /\ src = << >>
    /\ tokens = << >>
    /\ program = NoProgram
    /\ result = "env"

EnvPush ==
    /\ result = "env"
    /\ Len(scopes) < MaxScopes
    /\ scopes' = push_scope(scopes)
    /\ env_ret' = [NoCall EXCEPT !.op = "push_scope"]
    /\ UNCHANGED <<funcs, blocks, insert, stack, ast, limit, src, tokens, program, result>>

\* CodeGen pops only scopes it pushed: the scope of Env::new stays.
EnvPop ==
    /\ result = "env"
    /\ Len(scopes) > 1
    /\ scopes' = pop_scope(scopes)
    /\ env_ret' = [NoCall EXCEPT !.op = "pop_scope"]
    /\ UNCHANGED <<funcs, blocks, insert, stack, ast, limit, src, tokens, program, result>>

EnvDeclare ==
    /\ result = "env"
    /\ \E name \in Names, v \in EnvSlots :
          LET r == declare_var(scopes, name, v.ptr, v.ty, v.is_mutable) IN
          /\ scopes' = r.scopes
          /\ env_ret' = [op |-> "declare_var", name |-> name, err |-> r.err,
                         info |-> v]
    /\ UNCHANGED <<funcs, blocks, insert, stack, ast, limit, src, tokens, program, result>>

EnvResolve ==
    /\ result = "env"
    /\ \E name \in Names :
          LET r == resolve_var(scopes, name) IN
          env_ret' = [op |-> "resolve_var", name |-> name, err |-> r.err,
                      info |-> r.info]
    /\ UNCHANGED <<scopes, funcs, blocks, insert, stack, ast, limit, src, tokens, program, result>>

NextEnv == EnvPush \/ EnvPop \/ EnvDeclare \/ EnvResolve

SpecEnv == InitEnv /\ [][NextEnv]_vars

(***************************************************************************)
(* Claims about Env.                                                       *)
(***************************************************************************)
\* The scopes of stack sc that bind name.
Binders(sc, name) == {i \in 1..Len(sc) : name \in DOMAIN sc[i]}

Max(S) == CHOOSE m \in S : \A n \in S : n <= m

\* C1: declare_var(name, ...) fails with DuplicateBinding exactly when name
\* is already bound in the top scope of the stack; a name bound only in
\* outer scopes is declared in the top scope without error, and the top
\* scope then binds it to the declared slot.
C1_DeclareFailsOnlyOnTopScope ==
    [][env_ret'.op = "declare_var" =>
          LET name == env_ret'.name IN
          /\ env_ret'.err = "DuplicateBinding" <=> name \in DOMAIN Last(scopes)
          /\ env_ret'.err \in {"DuplicateBinding", "none"}
          /\ (name \notin DOMAIN Last(scopes)
                /\ Binders(Front(scopes), name) # {})
             => /\ env_ret'.err = "none"
                /\ Last(scopes')[name] = env_ret'.info
                /\ Front(scopes') = Front(scopes)]_vars

\* C1 witness: a name bound in an outer scope has been declared in a
\* nested top scope without error (shadowing).
C1_Witness ==
    /\ env_ret.op = "declare_var"
    /\ env_ret.err = "none"
    /\ Len(scopes) >= 2
    /\ Binders(Front(scopes), env_ret.name) # {}
    /\ Last(scopes)[env_ret.name] # scopes[Max(Binders(Front(scopes), env_ret.name))][env_ret.name]

\* C2: resolve_var(name) returns the binding of the innermost scope that
\* binds name, and fails with UnboundName exactly when no scope of the
\* stack binds name.
C2_ResolveInnermost ==
    env_ret.op = "resolve_var" =>
        LET b == Binders(scopes, env_ret.name) IN
        /\ env_ret.err = "UnboundName" <=> b = {}
        /\ b # {} => /\ env_ret.err = "none"
                     /\ env_ret.info = scopes[Max(b)][env_ret.name]

\* C2 witness: a name bound in two scopes to different slots was resolved
\* to the inner one.
C2_Witness ==
    /\ env_ret.op = "resolve_var"
    /\ env_ret.err = "none"
    /\ \E i, j \in Binders(scopes, env_ret.name) :
          /\ i < j
          /\ scopes[i][env_ret.name] # scopes[j][env_ret.name]
          /\ env_ret.info = scopes[j][env_ret.name]

(***************************************************************************)
(* The IR unit (what the inkwell builder records).                         *)
(*                                                                         *)
(* A value is a constant, a function parameter, or the result of the       *)
(* instruction at index n of block b.  A pointer is the slot of one alloca;*)
(* it is named by the place in the Program of the statement that built it  *)
(* (a statement is lowered once, and builds at most one alloca; parameter  *)
(* i of the function declared at path p has the slot p \o <<0, i>>).       *)
(***************************************************************************)
IntTypes == {"i1", "i32", "i64"}

Const(ty, n) == [k |-> "const", ty |-> ty, b |-> 0, n |-> n]
InstVal(ty, b, n) == [k |-> "inst", ty |-> ty, b |-> b, n |-> n]
ParamVal(ty, f, i) == [k |-> "param", ty |-> ty, b |-> f, n |-> i]
NoVal == [k |-> "none", ty |-> "void", b |-> 0, n |-> 0]

\* BasicValueEnum::is_int_value
is_int_value(v) == v.ty \in IntTypes

Alloca(ptr, ty, name) == [op |-> "alloca", ptr |-> ptr, ty |-> ty, name |-> name]
Store(ptr, val) == [op |-> "store", ptr |-> ptr, val |-> val]
Load(ptr, ty) == [op |-> "load", ptr |-> ptr, ty |-> ty]
BinInst(op, lhs, rhs) == [op |-> op, lhs |-> lhs, rhs |-> rhs]
Call(f, args) == [op |-> "call", fn |-> f, args |-> args]
Ret(val) == [op |-> "ret", val |-> val]
Br(dest) == [op |-> "br", dest |-> dest]
CondBr(cond, then_block, else_block) ==
    [op |-> "condbr", cond |-> cond, then |-> then_block, else |-> else_block]

Terminators == {"ret", "br", "condbr"}

\* BasicBlock::get_terminator: the block's last instruction, when it is a
\* terminator.
has_terminator(bl) ==
    /\ Len(bl.instrs) > 0
    /\ Last(bl.instrs).op \in Terminators

\* Builder::build_*: the instructions appended at the end of block b.
Emit(bls, b, out) == [bls EXCEPT ![b].instrs = @ \o out]

\* Context::append_basic_block(function, label)
NewBlock(f, label) == [label |-> label, fn |-> f, instrs |-> << >>]

\* get_function finding only the functions whose FnDecl arm has returned.
get_function_after_body(fs, name) ==
    LET S == {i \in 1..Len(fs) :
                /\ fs[i].name = name
                /\ \A j \in 1..Len(stack) :
                      stack[j].k = "fn" => stack[j].function # i}
    IN  IF S = {} THEN 0 ELSE CHOOSE i \in S : \A j \in S : i <= j

\* Module::get_function: the function of that name (0: None).  add_function
\* renames a second function of a taken name, so a name finds at most one.
get_function(fs, name) ==
    LET S == {i \in 1..Len(fs) : fs[i].name = name} IN
    IF S = {} THEN 0 ELSE CHOOSE i \in S : \A j \in S : i <= j

\* Module::add_function: LLVM gives a function whose name is taken the name
\* with a numeric suffix, which no identifier of the source can spell.  decl
\* is the place of the FnDecl the function was added for (<< >>: compile's
\* main).
add_function(fs, name, params, ret) ==
    Append(fs, [name |-> IF get_function(fs, name) = 0 THEN name
                         ELSE name \o "." \o ToString(Len(fs)),
                params |-> params, ret |-> ret, blocks |-> << >>,
                decl |-> << >>])

\* CodeGen::map_ast_type_to_llvm
map_ast_type_to_llvm(ty) ==
    CASE ty = "I32" -> [err |-> "none", ty |-> "i32"]
      [] ty = "I64" -> [err |-> "none", ty |-> "i64"]
      [] ty = "F32" -> [err |-> "none", ty |-> "f32"]
      [] ty = "F64" -> [err |-> "none", ty |-> "f64"]
      [] OTHER -> [err |-> "UnsupportedType", ty |-> "void"]

\* CodeGen::get_default_value
get_default_value(ty) ==
    CASE ty = "I32" -> [err |-> "none", val |-> Const("i32", 0)]
      [] ty = "I64" -> [err |-> "none", val |-> Const("i64", 0)]
      [] ty = "F32" -> [err |-> "none", val |-> Const("f32", 0)]
      [] ty = "F64" -> [err |-> "none", val |-> Const("f64", 0)]
      [] OTHER -> [err |-> "UnsupportedType", val |-> NoVal]

(***************************************************************************)
(* Expressions (ast::Expr) and their lowering.                             *)
(***************************************************************************)
IntLit(v) == [e |-> "IntLit", v |-> v]
BoolLit(v) == [e |-> "BoolLit", b |-> v]
BinOp(lhs, op, rhs) == [e |-> "BinOp", lhs |-> lhs, op |-> op, rhs |-> rhs]
UnaryOp(op, expr) == [e |-> "UnaryOp", op |-> op, expr |-> expr]
FnCall(name, args) == [e |-> "FnCall", name |-> name, args |-> args]
VarRef(name) == [e |-> "VarRef", name |-> name]

\* What gen_expr returns, with the instructions it has built by then (an
\* error leaves the instructions built before it in the block).
ExprOk(val, out) == [err |-> "none", val |-> val, out |-> out]
ExprErr(err, out) == [err |-> err, val |-> NoVal, out |-> out]

\* gen_binop without the comparison of the operand types.
gen_binop_any_types(op, lhs, rhs, out, b, n) ==
    IF ~is_int_value(lhs) \/ ~is_int_value(rhs)
    THEN ExprErr("UnsupportedOperand", out)
    ELSE IF op \in {"Equal", "NotEqual", "LessThan", "LessThanOrEqual",
                    "GreaterThan", "GreaterThanOrEqual"}
         THEN ExprOk(InstVal("i1", b, n),
                     Append(out, [op |-> "icmp", pred |-> op,
                                  lhs |-> lhs, rhs |-> rhs]))
         ELSE ExprOk(InstVal(lhs.ty, b, n),
                     Append(out, BinInst(CASE op = "Add" -> "add"
                                           [] op = "Sub" -> "sub"
                                           [] op = "Mul" -> "mul"
                                           [] op = "Div" -> "sdiv"
                                           [] op = "And" -> "and"
                                           [] op = "Or" -> "or",
                                         lhs, rhs)))

\* gen_expr, Expr::BinOp, after both operands are lowered: the checks and the
\* one instruction of the operator, built at index n of block b.
gen_binop(op, lhs, rhs, out, b, n) ==
    CASE op \in {"Equal", "NotEqual", "LessThan", "LessThanOrEqual",
                 "GreaterThan", "GreaterThanOrEqual"} ->
            IF lhs.ty # rhs.ty THEN ExprErr("TypeMismatch", out)
            ELSE IF ~(is_int_value(lhs) /\ is_int_value(rhs))
                 THEN ExprErr("UnsupportedOperand", out)
            ELSE ExprOk(InstVal("i1", b, n),
                        Append(out, [op |-> "icmp", pred |-> op,
                                     lhs |-> lhs, rhs |-> rhs]))
      [] op \in {"And", "Or"} ->
            IF ~is_int_value(lhs) \/ ~is_int_value(rhs)
            THEN ExprErr("UnsupportedOperand", out)
            ELSE ExprOk(InstVal(lhs.ty, b, n),
                        Append(out, BinInst(IF op = "And" THEN "and" ELSE "or",
                                            lhs, rhs)))
      [] OTHER ->
            IF lhs.ty # rhs.ty THEN ExprErr("TypeMismatch", out)
            ELSE IF ~is_int_value(lhs) \/ ~is_int_value(rhs)
                 THEN ExprErr("UnsupportedOperand", out)
            ELSE ExprOk(InstVal(lhs.ty, b, n),
                        Append(out, BinInst(CASE op = "Add" -> "add"
                                              [] op = "Sub" -> "sub"
                                              [] op = "Mul" -> "mul"
                                              [] op = "Div" -> "sdiv",
                                            lhs, rhs)))

RECURSIVE gen_expr(_, _, _, _, _)
RECURSIVE gen_args(_, _, _, _, _, _, _, _)
RECURSIVE gen_operands(_, _, _, _, _, _)

\* gen_operands with the right operand lowered before the left one.
gen_operands_right_first(sc, fs, b, n, lhs, rhs) ==
    LET r == gen_expr(sc, fs, b, n, rhs) IN
    IF r.err # "none" THEN [err |-> r.err, lhs |-> NoVal, rhs |-> NoVal,
                            out |-> r.out]
    ELSE LET l == gen_expr(sc, fs, b, n + Len(r.out), lhs) IN
         [err |-> l.err, lhs |-> l.val, rhs |-> r.val, out |-> r.out \o l.out]

\* gen_expr, Expr::BinOp: the two operands, the left one first; an error of
\* the left one leaves the right one unlowered.
gen_operands(sc, fs, b, n, lhs, rhs) ==
    LET l == gen_expr(sc, fs, b, n, lhs) IN
    IF l.err # "none" THEN [err |-> l.err, lhs |-> NoVal, rhs |-> NoVal,
                            out |-> l.out]
    ELSE LET r == gen_expr(sc, fs, b, n + Len(l.out), rhs) IN
         [err |-> r.err, lhs |-> l.val, rhs |-> r.val, out |-> l.out \o r.out]

\* gen_expr, Expr::FnCall: the loop over args, at argument i.
gen_args(sc, fs, b, n, args, i, vals, out) ==
    IF i > Len(args) THEN [err |-> "none", vals |-> vals, out |-> out]
    ELSE LET a == gen_expr(sc, fs, b, n + Len(out), args[i]) IN
         IF a.err # "none"
         THEN [err |-> a.err, vals |-> vals, out |-> out \o a.out]
         ELSE gen_args(sc, fs, b, n, args, i + 1, Append(vals, a.val),
                       out \o a.out)

\* CodeGen::gen_expr, with the builder at the end of block b, which holds
\* n - 1 instructions: sc is env.scopes and fs the module's functions.
gen_expr(sc, fs, b, n, expr) ==
    CASE expr.e = "IntLit" -> ExprOk(Const("i32", expr.v), << >>)
      [] expr.e = "BoolLit" ->
            ExprOk(Const("i1", IF expr.b THEN 1 ELSE 0), << >>)
      [] expr.e = "BinOp" ->
            LET o == gen_operands(sc, fs, b, n, expr.lhs, expr.rhs) IN
            IF o.err # "none" THEN ExprErr(o.err, o.out)
            ELSE gen_binop(expr.op, o.lhs, o.rhs, o.out, b, n + Len(o.out))
      [] expr.e = "UnaryOp" ->
            LET v == gen_expr(sc, fs, b, n, expr.expr) IN
            IF v.err # "none" THEN v
            ELSE IF ~is_int_value(v.val) THEN ExprErr("UnsupportedOperand", v.out)
            ELSE IF expr.op = "Neg"
                 THEN ExprOk(InstVal("i32", b, n + Len(v.out)),
                             Append(v.out, BinInst("sub", Const("i32", 0), v.val)))
                 ELSE ExprOk(InstVal(v.val.ty, b, n + Len(v.out)),
                             Append(v.out, [op |-> "not", val |-> v.val]))
      [] expr.e = "FnCall" ->
            LET f == get_function(fs, expr.name) IN
            IF f = 0 THEN ExprErr("UnboundName", << >>)
            ELSE LET a == gen_args(sc, fs, b, n, expr.args, 1, << >>, << >>) IN
                 IF a.err # "none" THEN ExprErr(a.err, a.out)
                 ELSE IF fs[f].ret = "void"
                      \* try_as_basic_value().left().unwrap() of a void call
                      THEN ExprErr("Panic", Append(a.out, Call(f, a.vals)))
                 ELSE ExprOk(InstVal(fs[f].ret, b, n + Len(a.out)),
                             Append(a.out, Call(f, a.vals)))
      [] expr.e = "VarRef" ->
            LET r == resolve_var(sc, expr.name) IN
            IF r.err # "none" THEN ExprErr("UnboundName", << >>)
            ELSE ExprOk(InstVal(r.info.ty, b, n),
                        <<Load(r.info.ptr, r.info.ty)>>)

(***************************************************************************)
(* Statements (ast::Stmt).  A Program is kept as a map from the place of a *)
(* statement to its node: the statements of the top level are at <<1>>,    *)
(* <<2>>, ...; the then-branch of the If at p, and the body of the FnDecl  *)
(* at p, are at p \o <<1, 1>>, p \o <<1, 2>>, ...; the else-branch of the  *)
(* If at p is at p \o <<2, 1>>, ....  The node of an If keeps whether it   *)
(* has an else-branch, the branches' statements being nodes of their own.  *)
(***************************************************************************)
NoType == "None"
NoExpr == [e |-> "None"]

FnDecl(name, params, type) ==
    [s |-> "FnDecl", name |-> name, params |-> params, type |-> type]
FunctionParameter(name, type) == [name |-> name, type |-> type]
LetDecl(name, type, value) ==
    [s |-> "LetDecl", name |-> name, type |-> type, value |-> value]
VarDecl(name, type, value) ==
    [s |-> "VarDecl", name |-> name, type |-> type, value |-> value]
Assign(name, value) == [s |-> "Assign", name |-> name, value |-> value]
If(condition, has_else) ==
    [s |-> "If", condition |-> condition, has_else |-> has_else]
Return(expr) == [s |-> "Return", expr |-> expr]
ExprStmt(expr) == [s |-> "ExprStmt", expr |-> expr]
Expr(expr) == [s |-> "Expr", expr |-> expr]

\* What the lowering of one statement has done when it returns: the error
\* (if any), the instructions built, and env.scopes.
StmtRet(err, out, sc) == [err |-> err, out |-> out, scopes |-> sc]

\* gen_stmt, Stmt::LetDecl
gen_let(sc, fs, b, n, st, ptr) ==
    IF st.value = NoExpr THEN StmtRet("MissingInitializer", << >>, sc)
    ELSE
    LET v == gen_expr(sc, fs, b, n, st.value) IN
    IF v.err # "none" THEN StmtRet(v.err, v.out, sc)
    ELSE
    LET var_type == v.val.ty
        llvm_type == IF st.type = NoType THEN [err |-> "none", ty |-> var_type]
                     ELSE map_ast_type_to_llvm(st.type)
    IN
    IF llvm_type.err # "none" THEN StmtRet(llvm_type.err, v.out, sc)
    ELSE IF var_type # llvm_type.ty THEN StmtRet("TypeMismatch", v.out, sc)
    ELSE LET d == declare_var(sc, st.name, ptr, var_type, FALSE) IN
         StmtRet(d.err,
                 v.out \o <<Alloca(ptr, var_type, st.name), Store(ptr, v.val)>>,
                 d.scopes)

\* gen_stmt, Stmt::VarDecl: the declared type is read only to make the
\* default value of a declaration without initializer.
gen_var(sc, fs, b, n, st, ptr) ==
    LET v == IF st.value # NoExpr THEN gen_expr(sc, fs, b, n, st.value)
             ELSE IF st.type = NoType THEN ExprErr("MissingType", << >>)
             ELSE LET d == get_default_value(st.type) IN
                  IF d.err # "none" THEN ExprErr(d.err, << >>)
                  ELSE ExprOk(d.val, << >>)
    IN
    IF v.err # "none" THEN StmtRet(v.err, v.out, sc)
    ELSE LET var_type == v.val.ty
             d == declare_var(sc, st.name, ptr, var_type, TRUE) IN
         StmtRet(d.err,
                 v.out \o <<Alloca(ptr, var_type, st.name), Store(ptr, v.val)>>,
                 d.scopes)

\* An Assign lowered without the check of mutability.
gen_assign_any_binding(sc, fs, b, n, st) ==
    LET v == gen_expr(sc, fs, b, n, st.value) IN
    IF v.err # "none" THEN StmtRet(v.err, v.out, sc)
    ELSE
    LET r == resolve_var(sc, st.name) IN
    IF r.err # "none" THEN StmtRet("UnboundName", v.out, sc)
    ELSE LET loaded == Append(v.out, Load(r.info.ptr, r.info.ty)) IN
         IF v.val.ty # r.info.ty THEN StmtRet("TypeMismatch", loaded, sc)
         ELSE StmtRet("none", Append(loaded, Store(r.info.ptr, v.val)), sc)

\* An Assign lowered without the check of the value's type.
gen_assign_any_type(sc, fs, b, n, st) ==
    LET v == gen_expr(sc, fs, b, n, st.value) IN
    IF v.err # "none" THEN StmtRet(v.err, v.out, sc)
    ELSE
    LET r == resolve_var(sc, st.name) IN
    IF r.err # "none" THEN StmtRet("UnboundName", v.out, sc)
    ELSE IF ~r.info.is_mutable THEN StmtRet("ImmutableAssignment", v.out, sc)
    ELSE StmtRet("none",
                 v.out \o <<Load(r.info.ptr, r.info.ty), Store(r.info.ptr, v.val)>>,
                 sc)

\* gen_assign without its store.
gen_assign_no_store(sc, fs, b, n, st) ==
    LET v == gen_expr(sc, fs, b, n, st.value) IN
    IF v.err # "none" THEN StmtRet(v.err, v.out, sc)
    ELSE
    LET r == resolve_var(sc, st.name) IN
    IF r.err # "none" THEN StmtRet("UnboundName", v.out, sc)
    ELSE IF ~r.info.is_mutable THEN StmtRet("ImmutableAssignment", v.out, sc)
    ELSE LET loaded == Append(v.out, Load(r.info.ptr, r.info.ty)) IN
         IF v.val.ty # r.info.ty THEN StmtRet("TypeMismatch", loaded, sc)
         ELSE StmtRet("none", loaded, sc)

\* gen_stmt, Stmt::Assign: the value is lowered first, then the target is
\* resolved; the load of the current value is built before the types are
\* compared.
gen_assign(sc, fs, b, n, st) ==
    LET v == gen_expr(sc, fs, b, n, st.value) IN
    IF v.err # "none" THEN StmtRet(v.err, v.out, sc)
    ELSE
    LET r == resolve_var(sc, st.name) IN
    IF r.err # "none" THEN StmtRet("UnboundName", v.out, sc)
    ELSE IF ~r.info.is_mutable THEN StmtRet("ImmutableAssignment", v.out, sc)
    ELSE LET loaded == Append(v.out, Load(r.info.ptr, r.info.ty)) IN
         IF v.val.ty # r.info.ty THEN StmtRet("TypeMismatch", loaded, sc)
         ELSE StmtRet("none", Append(loaded, Store(r.info.ptr, v.val)), sc)

\* gen_stmt, Stmt::Return
gen_return(sc, fs, b, n, st) ==
    IF st.expr = NoExpr THEN StmtRet("none", <<Ret(NoVal)>>, sc)
    ELSE LET v == gen_expr(sc, fs, b, n, st.expr) IN
         IF v.err # "none" THEN StmtRet(v.err, v.out, sc)
         ELSE StmtRet("none", Append(v.out, Ret(v.val)), sc)

\* gen_stmt, Stmt::ExprStmt
gen_expr_stmt(sc, fs, b, n, st) ==
    LET v == gen_expr(sc, fs, b, n, st.expr) IN
    StmtRet(v.err, v.out, sc)

\* A Stmt::Expr that builds its return only as the last statement of the
\* function's outermost body.
gen_tail_expr_outermost_only(sc, fs, b, n, st, is_last_stmt) ==
    LET v == gen_expr(sc, fs, b, n, st.expr) IN
    IF v.err # "none" THEN StmtRet(v.err, v.out, sc)
    ELSE IF is_last_stmt THEN StmtRet("none", Append(v.out, Ret(v.val)), sc)
    ELSE StmtRet("none", v.out, sc)

\* gen_stmt, Stmt::Expr: the return is built whatever is_last_stmt is.
gen_tail_expr(sc, fs, b, n, st, is_last_stmt) ==
    LET v == gen_expr(sc, fs, b, n, st.expr) IN
    IF v.err # "none" THEN StmtRet(v.err, v.out, sc)
    ELSE StmtRet("none", Append(v.out, Ret(v.val)), sc)

(***************************************************************************)
(* CodeGen as a machine.  stack holds the activations of gen_block and of  *)
(* the two arms of gen_stmt that call it (FnDecl, If), innermost last.  A  *)
(* Program is read as gen_block's loops reach it: a block frame holds the  *)
(* place of its statement list, the number i of statements lowered so far, *)
(* whether the list is known to end there (closed), and whether it is known*)
(* to go on (owe): the length of a list is read only by is_last_stmt, which*)
(* only the If arm uses, and the grammar ends a list after a Stmt::Expr.   *)
(***************************************************************************)
BlockFrame(path, is_last_block) ==
    [k |-> "block", path |-> path, i |-> 0, is_last_block |-> is_last_block,
     closed |-> FALSE, owe |-> FALSE]

FnFrame(initial_pos, function, path) ==
    [k |-> "fn", initial_pos |-> initial_pos, function |-> function,
     path |-> path]

IfFrame(phase, then_block, else_block, merge_block, is_last_stmt, path) ==
    [k |-> "if", phase |-> phase, then_block |-> then_block,
     else_block |-> else_block, merge_block |-> merge_block,
     is_last_stmt |-> is_last_stmt, path |-> path, then_end |-> 0]

Top == Last(stack)

\* gen_block's loop is about to lower the next statement of its list.
Lowering ==
    /\ result = "running"
    /\ stack # << >>
    /\ Top.k = "block"
    /\ ~Top.closed

\* The place of the statement gen_block's loop is at.
StmtPath == Top.path \o <<Top.i + 1>>

\* The builder's position: the index of the next instruction of its block.
NextIndex == Len(blocks[insert].instrs) + 1

\* The statement lists below the top of the stack known to go on.
Owed == Cardinality({j \in 1..(Len(stack) - 1) :
                        stack[j].k = "block" /\ stack[j].owe})

\* The Program has room for one more statement here, and for `more` after it.
Room(more) == Cardinality(DOMAIN ast) + 1 + Owed + more <= limit

\* The statement at the top of the stack is done: the loop goes on.
Advance(st, closes) ==
    [st EXCEPT ![Len(st)] = [@ EXCEPT !.i = @ + 1, !.owe = FALSE,
                                      !.closed = @ \/ closes]]

\* A gen_block that records the error of a statement and goes on with the
\* statements after it.
Returns_goes_on(st, r, closes) ==
    /\ ast' = ast @@ (StmtPath :> st)
    /\ blocks' = Emit(blocks, insert, r.out)
    /\ scopes' = r.scopes
    /\ stack' = Advance(stack, closes)
    /\ result' = IF r.err = "none" THEN result ELSE r.err
    /\ UNCHANGED <<limit, src, tokens, program, env_ret, funcs, insert>>

\* gen_stmt returns to gen_block's loop, or its error to compile through
\* every `?` on the way.
Returns(st, r, closes) ==
    /\ ast' = ast @@ (StmtPath :> st)
    /\ blocks' = Emit(blocks, insert, r.out)
    /\ scopes' = r.scopes
    /\ IF r.err = "none"
       THEN /\ stack' = Advance(stack, closes)
            /\ result' = result
       ELSE /\ stack' = << >>
            /\ result' = r.err
    /\ UNCHANGED <<limit, src, tokens, program, env_ret, funcs, insert>>

(***************************************************************************)
(* The Programs lowered: every Program of at most MaxStmts statements built*)
(* from these nodes, with Stmt::Expr only at the end of a statement list.  *)
(***************************************************************************)
LetPool == {LetDecl("x", "I32", IntLit(1)),
            LetDecl("x", "I64", IntLit(1))}

VarPool == {VarDecl("x", NoType, IntLit(2)),
            VarDecl("x", "I64", IntLit(2))}

AssignPool == {Assign("x", IntLit(3)),
               Assign("x", BoolLit(TRUE)),
               Assign("x", VarRef("y"))}

ReturnPool == {Return(IntLit(1))}

ExprStmtPool == {ExprStmt(VarRef("x"))}

TailPool == {Expr(IntLit(1)), Expr(IntLit(2))}

CondPool == {BoolLit(TRUE), BoolLit(FALSE)}

FnPool == {FnDecl("f", <<FunctionParameter("x", "I32")>>, "I32"),
           FnDecl("g", <<FunctionParameter("x", "I32")>>, "Void")}

(***************************************************************************)
(* compile and gen_block                                                   *)
(***************************************************************************)
\* CodeGen::new
Init ==
    /\ scopes = EnvNew
    /\ env_ret = NoCall
    /\ funcs = << >>
    /\ blocks = << >>
    /\ insert = 0
    /\ stack = << >>
    /\ ast = << >>
    /\ limit = MaxStmts
    /\ src = << >>
    /\ tokens = << >>
    /\ program = NoProgram
    /\ result = "new"

\* compile, to its call of gen_program, and gen_block's push_scope.
Compile ==
    /\ result = "new"
    /\ funcs' = [add_function(funcs, "main", << >>, "i32")
                    EXCEPT ![Len(funcs) + 1].blocks = <<Len(blocks) + 1>>]
    /\ blocks' = Append(blocks, NewBlock(Len(funcs) + 1, "entry"))
    /\ insert' = Len(blocks) + 1
    /\ scopes' = push_scope(scopes)
    /\ stack' = <<BlockFrame(<< >>, TRUE)>>
    /\ result' = "running"
    /\ UNCHANGED <<limit, src, tokens, program, env_ret, ast>>

\* gen_block: the loop has ended; pop_scope, and the return to the caller.
GenBlockExit ==
    /\ result = "running"
    /\ stack # << >>
    /\ Top.k = "block"
    /\ ~Top.owe
    /\ scopes' = pop_scope(scopes)
    /\ stack' = Front(stack)
    /\ UNCHANGED <<limit, src, tokens, program, env_ret, funcs, blocks, insert, ast, result>>

(***************************************************************************)
(* gen_stmt: the arms that call nothing but gen_expr.                      *)
(***************************************************************************)
GenLetDecl ==
    /\ Lowering /\ Room(0)
    /\ \E st \in LetPool :
          Returns(st, gen_let(scopes, funcs, insert, NextIndex, st, StmtPath),
                  FALSE)

GenVarDecl ==
    /\ Lowering /\ Room(0)
    /\ \E st \in VarPool :
          Returns(st, gen_var(scopes, funcs, insert, NextIndex, st, StmtPath),
                  FALSE)

GenAssign ==
    /\ Lowering /\ Room(0)
    /\ \E st \in AssignPool :
          Returns(st, gen_assign(scopes, funcs, insert, NextIndex, st), FALSE)

GenReturn ==
    /\ Lowering /\ Room(0)
    /\ \E st \in ReturnPool :
          Returns(st, gen_return(scopes, funcs, insert, NextIndex, st), FALSE)

GenExprStmt ==
    /\ Lowering /\ Room(0)
    /\ \E st \in ExprStmtPool :
          Returns(st, gen_expr_stmt(scopes, funcs, insert, NextIndex, st), FALSE)

\* A Stmt::Expr is the last statement of its list.
GenTailExpr ==
    /\ Lowering /\ Room(0)
    /\ \E st \in TailPool :
          Returns(st, gen_tail_expr(scopes, funcs, insert, NextIndex, st,
                                    Top.is_last_block), TRUE)

(***************************************************************************)
(* gen_stmt, Stmt::FnDecl                                                  *)
(***************************************************************************)
RECURSIVE map_param_types(_, _)
\* The collect of the parameters' types: the first error, or all the types.
map_param_types(params, i) ==
    IF i > Len(params) THEN [err |-> "none", tys |-> << >>]
    ELSE LET t == map_ast_type_to_llvm(params[i].type) IN
         IF t.err # "none" THEN [err |-> t.err, tys |-> << >>]
         ELSE LET rest == map_param_types(params, i + 1) IN
              [err |-> rest.err, tys |-> <<t.ty>> \o rest.tys]

RECURSIVE gen_params(_, _, _, _, _, _)
\* The loop over the function's parameters, at parameter i: a slot for each,
\* the incoming value stored into it, and the name declared immutable.
gen_params(sc, params, i, out, path, f) ==
    IF i > Len(params) THEN StmtRet("none", out, sc)
    ELSE LET ty == map_ast_type_to_llvm(params[i].type).ty
             ptr == path \o <<0, i>>
             d == declare_var(sc, params[i].name, ptr, ty, FALSE)
             built == out \o <<Alloca(ptr, ty, params[i].name),
                               Store(ptr, ParamVal(ty, f, i))>>
         IN
         IF d.err # "none" THEN StmtRet(d.err, built, d.scopes)
         ELSE gen_params(d.scopes, params, i + 1, built, path, f)

\* The FnDecl arm to its call of gen_block (and gen_block's push_scope).
GenFnDecl ==
    /\ Lowering /\ Room(0)
    /\ \E st \in FnPool :
          LET initial_pos == insert
              param_types == map_param_types(st.params, 1)
              ret == map_ast_type_to_llvm(st.type)
              f == Len(funcs) + 1
              basic_block == Len(blocks) + 1
              p == gen_params(push_scope(scopes), st.params, 1, << >>,
                              StmtPath, f)
          IN
          /\ ast' = ast @@ (StmtPath :> st)
          /\ IF param_types.err # "none"
                \/ (ret.err # "none" /\ st.type # "Void")
             THEN /\ result' = "UnsupportedType"
                  /\ stack' = << >>
                  /\ UNCHANGED <<scopes, funcs, blocks, insert>>
             ELSE /\ funcs' = [add_function(funcs, st.name, param_types.tys,
                                            ret.ty)
                                  EXCEPT ![f].blocks = <<basic_block>>,
                                         ![f].decl = StmtPath]
                  /\ blocks' = Append(blocks,
                                      [NewBlock(f, "entry")
                                          EXCEPT !.instrs = p.out])
                  /\ insert' = basic_block
                  /\ IF p.err # "none"
                     THEN /\ scopes' = p.scopes
                          /\ result' = p.err
                          /\ stack' = << >>
                     ELSE /\ scopes' = push_scope(p.scopes)
                          /\ result' = result
                          /\ stack' =
                               [stack EXCEPT ![Len(stack)].owe = FALSE]
                               \o <<FnFrame(initial_pos, f, StmtPath),
                                    BlockFrame(StmtPath \o <<1>>, TRUE)>>
    /\ UNCHANGED <<limit, src, tokens, program, env_ret>>

\* GenFnDeclExit without position_at_end(initial_pos).
GenFnDeclExit_stays ==
    /\ result = "running"
    /\ stack # << >>
    /\ Top.k = "fn"
    /\ scopes' = pop_scope(scopes)
    /\ stack' = [Front(stack) EXCEPT ![Len(stack) - 1].i = @ + 1]
    /\ UNCHANGED <<limit, src, tokens, program, env_ret, funcs, blocks, ast, result, insert>>

\* The FnDecl arm after gen_block has returned.
GenFnDeclExit ==
    /\ result = "running"
    /\ stack # << >>
    /\ Top.k = "fn"
    /\ scopes' = pop_scope(scopes)
    /\ insert' = Top.initial_pos
    /\ stack' = [Front(stack) EXCEPT ![Len(stack) - 1].i = @ + 1]
    /\ UNCHANGED <<limit, src, tokens, program, env_ret, funcs, blocks, ast, result>>

(***************************************************************************)
(* gen_stmt, Stmt::If                                                      *)
(***************************************************************************)
\* A remove_from_function that leaves the block in its function.
remove_from_function_keeps(fs, bls, b) == [funcs |-> fs, blocks |-> bls]

\* BasicBlock::remove_from_function
remove_from_function(fs, bls, b) ==
    [funcs |-> [fs EXCEPT ![bls[b].fn].blocks =
                   SelectSeq(@, LAMBDA x : x # b)],
     blocks |-> [bls EXCEPT ![b].fn = 0]]

\* An If arm that builds no jump to the merge block.
BranchToMerge_never(bls, b, merge_block) == bls

\* The jump to the merge block built when the insert block has no terminator.
BranchToMerge(bls, b, merge_block) ==
    IF has_terminator(bls[b]) THEN bls ELSE Emit(bls, b, <<Br(merge_block)>>)

\* The If arm to its call of gen_block for the then-branch.  `more` is
\* whether a statement follows the If in its list (i < stmts.len() - 1).
GenIf ==
    /\ Lowering
    /\ \E condition \in CondPool, has_else \in BOOLEAN, more \in BOOLEAN :
          LET st == If(condition, has_else)
              is_last_stmt == Top.is_last_block /\ ~more
              function == blocks[insert].fn
              then_block == Len(blocks) + 1
              else_block == IF has_else THEN Len(blocks) + 2 ELSE 0
              merge_block == Len(blocks) + (IF has_else THEN 3 ELSE 2)
              appended ==
                  blocks \o <<NewBlock(function, "then")>>
                         \o (IF has_else THEN <<NewBlock(function, "else")>>
                             ELSE << >>)
                         \o <<NewBlock(function, "ifcont")>>
              c == gen_expr(scopes, funcs, insert, NextIndex, condition)
              err == IF c.err # "none" THEN c.err
                     ELSE IF ~is_int_value(c.val) THEN "ConditionNotInteger"
                     ELSE "none"
          IN
          /\ Room(IF more THEN 1 ELSE 0)
          /\ function # 0
          /\ ast' = ast @@ (StmtPath :> st)
          /\ funcs' = [funcs EXCEPT ![function].blocks =
                          @ \o <<then_block>>
                            \o (IF has_else THEN <<else_block>> ELSE << >>)
                            \o <<merge_block>>]
          /\ IF err # "none"
             THEN /\ blocks' = Emit(appended, insert, c.out)
                  /\ result' = err
                  /\ stack' = << >>
                  /\ UNCHANGED <<scopes, insert>>
             ELSE /\ blocks' =
                        Emit(appended, insert,
                             Append(c.out,
                                    CondBr(c.val, then_block,
                                           IF has_else THEN else_block
                                           ELSE merge_block)))
                  /\ insert' = then_block
                  /\ scopes' = push_scope(scopes)
                  /\ result' = result
                  /\ stack' =
                        [stack EXCEPT ![Len(stack)] =
                            [@ EXCEPT !.closed = ~more, !.owe = more]]
                        \o <<IfFrame("then", then_block, else_block,
                                     merge_block, is_last_stmt, StmtPath),
                             BlockFrame(StmtPath \o <<1>>, is_last_stmt)>>
    /\ UNCHANGED <<limit, src, tokens, program, env_ret>>

\* The end of the If arm: the merge block is removed from the function when
\* the If is the last statement, and the builder is put at its end.
IfEnd(fs, bls) ==
    LET r == IF Top.is_last_stmt
             THEN remove_from_function(fs, bls, Top.merge_block)
             ELSE [funcs |-> fs, blocks |-> bls]
    IN
    /\ funcs' = r.funcs
    /\ blocks' = r.blocks
    /\ insert' = Top.merge_block
    /\ stack' = [Front(stack) EXCEPT ![Len(stack) - 1].i = @ + 1]
    /\ UNCHANGED <<limit, src, tokens, program, scopes, env_ret, ast, result>>

\* The If arm after gen_block has returned from the then-branch: to the call
\* of gen_block for the else-branch, or to the end of the arm.
GenIfAfterThen ==
    /\ result = "running"
    /\ stack # << >>
    /\ Top.k = "if"
    /\ Top.phase = "then"
    /\ LET jumped == BranchToMerge(blocks, insert, Top.merge_block) IN
       IF Top.else_block # 0
       THEN /\ blocks' = jumped
            /\ insert' = Top.else_block
            /\ scopes' = push_scope(scopes)
            /\ stack' = [stack EXCEPT ![Len(stack)].phase = "else",
                                      ![Len(stack)].then_end = insert]
                        \o <<BlockFrame(Top.path \o <<2>>, Top.is_last_stmt)>>
            /\ UNCHANGED <<limit, src, tokens, program, env_ret, funcs, ast, result>>
       ELSE IfEnd(funcs, jumped)

\* The If arm after gen_block has returned from the else-branch.
GenIfAfterElse ==
    /\ result = "running"
    /\ stack # << >>
    /\ Top.k = "if"
    /\ Top.phase = "else"
    /\ IfEnd(funcs, BranchToMerge(blocks, insert, Top.merge_block))

(***************************************************************************)
(* Module::verify, as far as the IR built here can fail it: every block of *)
(* a function ends in its one terminator, branches stay in the function,   *)
(* operands have the types the instruction wants and belong to the         *)
(* function.                                                               *)
(***************************************************************************)
\* The values an instruction reads.
Operands(ins) ==
    CASE ins.op \in {"add", "sub", "mul", "sdiv", "and", "or", "icmp"} ->
            {ins.lhs, ins.rhs}
      [] ins.op \in {"store", "not", "ret"} -> {ins.val}
      [] ins.op = "condbr" -> {ins.cond}
      [] ins.op = "call" -> {ins.args[i] : i \in 1..Len(ins.args)}
      [] OTHER -> {}

\* The slots allocated in the blocks of function f.
SlotsOf(fs, bls, f) ==
    UNION {{bls[b].instrs[i].ptr :
               i \in {j \in 1..Len(bls[b].instrs) :
                         bls[b].instrs[j].op = "alloca"}} :
           b \in {c \in 1..Len(bls) : bls[c].fn = f}}

instr_verifies(fs, bls, f, ins) ==
    /\ \A v \in Operands(ins) :
          /\ v.k = "inst" => bls[v.b].fn = f
          /\ v.k = "param" => v.b = f
    /\ ins.op \in {"add", "sub", "mul", "sdiv", "and", "or", "icmp"}
          => ins.lhs.ty = ins.rhs.ty
    /\ ins.op \in {"load", "store"} => ins.ptr \in SlotsOf(fs, bls, f)
    /\ ins.op = "ret" => ins.val.ty = fs[f].ret
    /\ ins.op = "br" => bls[ins.dest].fn = f
    /\ ins.op = "condbr" => /\ ins.cond.ty = "i1"
                            /\ bls[ins.then].fn = f
                            /\ bls[ins.else].fn = f
    /\ ins.op = "call" =>
          /\ Len(ins.args) = Len(fs[ins.fn].params)
          /\ \A i \in 1..Len(ins.args) :
                ins.args[i].ty = fs[ins.fn].params[i]

block_verifies(fs, bls, f, b) ==
    /\ has_terminator(bls[b])
    /\ \A i \in 1..(Len(bls[b].instrs) - 1) :
          bls[b].instrs[i].op \notin Terminators
    /\ \A i \in 1..Len(bls[b].instrs) :
          instr_verifies(fs, bls, f, bls[b].instrs[i])

module_verify(fs, bls) ==
    \A f \in 1..Len(fs) :
        \A j \in 1..Len(fs[f].blocks) :
            block_verifies(fs, bls, f, fs[f].blocks[j])

\* compile, after gen_program has returned Ok.
Verify ==
    /\ result = "running"
    /\ stack = << >>
    /\ result' = IF module_verify(funcs, blocks) THEN "ok"
                 ELSE "VerificationFailed"
    /\ UNCHANGED <<limit, src, tokens, program, scopes, env_ret, funcs, blocks, insert, stack, ast>>

Next ==
    \/ Compile
    \/ GenLetDecl
    \/ GenVarDecl
    \/ GenAssign
    \/ GenReturn
    \/ GenExprStmt
    \/ GenTailExpr
    \/ GenFnDecl
    \/ GenFnDeclExit
    \/ GenIf
    \/ GenIfAfterThen
    \/ GenIfAfterElse
    \/ GenBlockExit
    \/ Verify

Spec == Init /\ [][Next]_vars

\* compile on the Programs of at most MaxIfStmts statements made of If,
\* Return and tail expressions only.
InitIf ==
    /\ scopes = EnvNew
    /\ env_ret = NoCall
    /\ funcs = << >>
    /\ blocks = << >>
    /\ insert = 0
    /\ stack = << >>
    /\ ast = << >>
    /\ limit = MaxIfStmts
    /\ src = << >>
    /\ tokens = << >>
    /\ program = NoProgram
    /\ result = "new"

NextIf ==
    \/ Compile
    \/ GenReturn
    \/ GenTailExpr
    \/ GenIf
    \/ GenIfAfterThen
    \/ GenIfAfterElse
    \/ GenBlockExit
    \/ Verify

SpecIf == InitIf /\ [][NextIf]_vars

(***************************************************************************)
(* compile on the Programs of at most MaxExprStmts statements made of the  *)
(* declarations and assignments of LocalPool, the functions of FnPool, and *)
(* one tail expression at the end of a statement list: of ExprPool at the  *)
(* top level, of BodyExprPool in a function body.                          *)
(***************************************************************************)
BinOps == {"Add", "Sub", "Mul", "Div", "Equal", "NotEqual", "LessThan",
           "LessThanOrEqual", "GreaterThan", "GreaterThanOrEqual", "And", "Or"}

Atoms == {IntLit(10), IntLit(3), BoolLit(TRUE), BoolLit(FALSE),
          VarRef("x"), VarRef("y")}

Compared == {BinOp(VarRef("x"), "LessThan", IntLit(10)),
             BinOp(VarRef("y"), "Equal", IntLit(3))}

ArgLists == {<< >>, <<IntLit(3)>>, <<BoolLit(TRUE)>>, <<VarRef("y")>>,
             <<IntLit(3), VarRef("y")>>}

ExprPool ==
    Atoms
    \cup {BinOp(l, op, r) : l \in Atoms, op \in BinOps, r \in Atoms}
    \cup {BinOp(l, op, r) : l \in Compared, op \in {"And", "Or"}, r \in Compared}
    \cup {UnaryOp(op, a) : op \in {"Neg", "Not"}, a \in Atoms}
    \cup {FnCall(name, args) : name \in {"f", "g", "h"}, args \in ArgLists}

\* The tail expressions of the function bodies: the parameter, a name that
\* is no parameter, a call of the function being declared, a call of the
\* other one, a call of none.
BodyExprPool == {VarRef("x"),
                 VarRef("y"),
                 FnCall("f", <<VarRef("x")>>),
                 FnCall("g", <<IntLit(3)>>),
                 FnCall("h", << >>)}

LocalPool == {VarDecl("x", "I32", IntLit(10)),
              VarDecl("x", "I64", NoExpr),
              VarDecl("y", "F32", NoExpr),
              LetDecl("y", NoType, IntLit(3)),
              LetDecl("y", NoType, BoolLit(TRUE)),
              Assign("x", IntLit(5)),
              Assign("x", IntLit(7))}

InitExpr ==
    /\ scopes = EnvNew
    /\ env_ret = NoCall
    /\ funcs = << >>
    /\ blocks = << >>
    /\ insert = 0
    /\ stack = << >>
    /\ ast = << >>
    /\ limit = MaxExprStmts
    /\ src = << >>
    /\ tokens = << >>
    /\ program = NoProgram
    /\ result = "new"

\* gen_stmt on a declaration or an assignment of LocalPool.
GenLocal ==
    /\ Lowering /\ Room(0)
    /\ \E st \in LocalPool :
          Returns(st,
                  CASE st.s = "LetDecl" ->
                          gen_let(scopes, funcs, insert, NextIndex, st, StmtPath)
                    [] st.s = "VarDecl" ->
                          gen_var(scopes, funcs, insert, NextIndex, st, StmtPath)
                    [] st.s = "Assign" ->
                          gen_assign(scopes, funcs, insert, NextIndex, st),
                  FALSE)

\* gen_stmt on the tail expression of a statement list, drawn from ExprPool.
GenExprOf ==
    /\ Lowering /\ Room(0)
    /\ \E e \in IF Top.path = << >> THEN ExprPool ELSE BodyExprPool :
          Returns(Expr(e),
                  gen_tail_expr(scopes, funcs, insert, NextIndex, Expr(e),
                                Top.is_last_block),
                  TRUE)

NextExpr ==
    \/ Compile
    \/ GenLocal
    \/ GenFnDecl
    \/ GenFnDeclExit
    \/ GenExprOf
    \/ GenBlockExit
    \/ Verify

SpecExpr == InitExpr /\ [][NextExpr]_vars

(***************************************************************************)
(* Claims about the lowering of statements.                                *)
(***************************************************************************)
\* The statement lists gen_block is in, and the functions whose FnDecl arm
\* is running.
OpenBlocks == {stack[j].path : j \in {i \in 1..Len(stack) : stack[i].k = "block"}}
OpenFns == {stack[j].path : j \in {i \in 1..Len(stack) : stack[i].k = "fn"}}

\* The statement at place p is a statement of a then- or else-branch.
InBranch(p) ==
    /\ Len(p) >= 3
    /\ SubSeq(p, 1, Len(p) - 2) \in DOMAIN ast
    /\ ast[SubSeq(p, 1, Len(p) - 2)].s = "If"

\* The slot ptr was declared by a statement of a list gen_block is still in,
\* or is a parameter of a function whose FnDecl arm is still running.
DeclaredInOpenScope(ptr) ==
    IF Len(ptr) >= 2 /\ ptr[Len(ptr) - 1] = 0
    THEN SubSeq(ptr, 1, Len(ptr) - 2) \in OpenFns
    ELSE Front(ptr) \in OpenBlocks

\* The let and var statements of branches whose gen_block has returned.
EndedBranchDecls ==
    {p \in DOMAIN ast : /\ ast[p].s \in {"LetDecl", "VarDecl"}
                        /\ InBranch(p)
                        /\ Front(p) \notin OpenBlocks}

\* C3: while lowering goes on after the block of a then- or else-branch has
\* ended, a name declared (let or var) in that branch does not resolve to
\* the branch's slot: it is unbound, and a reference or an assignment to it
\* fails with UnboundName, or it resolves to a binding of a scope that
\* encloses the statement being lowered, and a reference loads that slot.
C3_BranchScopeEnds ==
    result = "running" =>
        \A p \in EndedBranchDecls :
            LET name == ast[p].name
                r == resolve_var(scopes, name)
            IN
            /\ r.err = "none" => /\ r.info.ptr # p
                                 /\ DeclaredInOpenScope(r.info.ptr)
            /\ Lowering =>
                  /\ \A st \in {a \in AssignPool : a.name = name} :
                        r.err # "none" =>
                           gen_assign(scopes, funcs, insert, NextIndex, st).err
                              = "UnboundName"
                  /\ LET ref == gen_expr_stmt(scopes, funcs, insert, NextIndex,
                                              ExprStmt(VarRef(name)))
                     IN IF r.err # "none"
                        THEN ref.err = "UnboundName" /\ ref.out = << >>
                        ELSE ref.out = <<Load(r.info.ptr, r.info.ty)>>

\* C3 witness: a statement after an If has failed with UnboundName on a name
\* that a branch of the If declared.
C3_Witness ==
    /\ result = "UnboundName"
    /\ <<1>> \in DOMAIN ast /\ ast[<<1>>].s = "If"
    /\ <<1, 1, 1>> \in DOMAIN ast /\ ast[<<1, 1, 1>>].s = "VarDecl"
    /\ <<2>> \in DOMAIN ast
    /\ ast[<<2>>] \in {ExprStmt(VarRef(ast[<<1, 1, 1>>].name)),
                       Assign(ast[<<1, 1, 1>>].name, IntLit(3))}
    /\ blocks[insert].label = "ifcont"

\* C3, the enclosing binding: after a branch that shadowed a let of the
\* enclosing block has ended, the name resolves to the enclosing let again.
C3_ShadowReached ==
    /\ result = "running"
    /\ <<1>> \in DOMAIN ast /\ ast[<<1>>].s = "LetDecl"
    /\ <<2, 1, 1>> \in EndedBranchDecls
    /\ ast[<<2, 1, 1>>].name = ast[<<1>>].name
    /\ resolve_var(scopes, ast[<<1>>].name).info.ptr = <<1>>

\* out holds a store to the slot ptr.
StoresTo(out, ptr) ==
    \E i \in 1..Len(out) : out[i].op = "store" /\ out[i].ptr = ptr

\* out holds a return.
HasReturn(out) == \E i \in 1..Len(out) : out[i].op = "ret"

\* What the statement st would do if it were the next one lowered.
ValueOf(st) == gen_expr(scopes, funcs, insert, NextIndex, st.value)
AssignOutcome(st) == gen_assign(scopes, funcs, insert, NextIndex, st)

\* The second half of C4: a value of the slot's type assigned to a var.
AssignToVarSucceeds(st) ==
    LET r == resolve_var(scopes, st.name)
        v == ValueOf(st)
        g == AssignOutcome(st)
    IN (/\ r.err = "none" /\ r.info.is_mutable
        /\ v.err = "none" /\ v.val.ty = r.info.ty)
       => /\ g.err = "none"
          /\ Last(g.out) = Store(r.info.ptr, v.val)
          /\ g.scopes = scopes

\* C4 as written: an assignment whose target resolves to a let binding
\* always fails with ImmutableAssignment and emits no store to the slot; an
\* assignment of a value of the slot's type to a var binding always succeeds
\* and emits a store to that binding's slot.
C4_AsWritten ==
    Lowering =>
        \A st \in AssignPool :
            LET r == resolve_var(scopes, st.name)
                g == AssignOutcome(st)
            IN
            /\ (r.err = "none" /\ ~r.info.is_mutable)
               => /\ g.err = "ImmutableAssignment"
                  /\ ~StoresTo(g.out, r.info.ptr)
            /\ AssignToVarSucceeds(st)

\* C4 amended: an assignment whose target resolves to a let binding always
\* fails and emits no store to the slot.  The value is lowered before the
\* target is resolved, so the error is the value's own error when the value
\* does not lower, and ImmutableAssignment whenever the value lowers.  An
\* assignment of a value of the slot's type to a var binding always succeeds
\* and emits a store to that binding's slot.
C4_ImmutableAfterValue ==
    Lowering =>
        \A st \in AssignPool :
            LET r == resolve_var(scopes, st.name)
                v == ValueOf(st)
                g == AssignOutcome(st)
            IN
            /\ (r.err = "none" /\ ~r.info.is_mutable)
               => /\ g.err = (IF v.err = "none" THEN "ImmutableAssignment"
                              ELSE v.err)
                  /\ g.err # "none"
                  /\ ~StoresTo(g.out, r.info.ptr)
            /\ AssignToVarSucceeds(st)

\* C4 witness: an assignment to a let binding has failed with
\* ImmutableAssignment and the slot holds only the store of its declaration.
C4_Witness ==
    /\ result = "ImmutableAssignment"
    /\ <<1>> \in DOMAIN ast /\ ast[<<1>>].s = "LetDecl"
    /\ <<2>> \in DOMAIN ast /\ ast[<<2>>].s = "Assign"
    /\ ast[<<2>>].name = ast[<<1>>].name
    /\ Cardinality({i \in 1..Len(blocks[1].instrs) :
                       /\ blocks[1].instrs[i].op = "store"
                       /\ blocks[1].instrs[i].ptr = <<1>>}) = 1

\* C4, the other half reached: an assignment to a var has stored into the
\* slot of the var.
C4_StoreReached ==
    /\ result = "running"
    /\ <<1>> \in DOMAIN ast /\ ast[<<1>>].s = "VarDecl"
    /\ <<2>> \in DOMAIN ast /\ ast[<<2>>].s = "Assign"
    /\ Last(blocks[1].instrs) = Store(<<1>>, Const("i32", 3))

\* What a let or var statement would do if it were the next one lowered.
DeclOutcome(st) ==
    IF st.s = "LetDecl"
    THEN gen_let(scopes, funcs, insert, NextIndex, st, StmtPath)
    ELSE gen_var(scopes, funcs, insert, NextIndex, st, StmtPath)

\* C5: a let or var declaration that carries both a declared type and an
\* initializer, with the declared type different from the type of the
\* lowered initializer, fails with TypeMismatch and leaves the scopes as
\* they were.
C5_DeclaredTypeChecked ==
    Lowering =>
        \A st \in {d \in LetPool \cup VarPool :
                      d.type # NoType /\ d.value # NoExpr} :
            LET v == ValueOf(st)
                t == map_ast_type_to_llvm(st.type)
                g == DeclOutcome(st)
            IN (v.err = "none" /\ t.err = "none" /\ t.ty # v.val.ty)
               => g.err = "TypeMismatch" /\ g.scopes = scopes

\* C6: an assignment to a mutable variable whose new value has a type other
\* than the type recorded for the slot fails with TypeMismatch and emits no
\* store to the slot.
C6_AssignTypeChecked ==
    Lowering =>
        \A st \in AssignPool :
            LET r == resolve_var(scopes, st.name)
                v == ValueOf(st)
                g == AssignOutcome(st)
            IN (/\ r.err = "none" /\ r.info.is_mutable
                /\ v.err = "none" /\ v.val.ty # r.info.ty)
               => /\ g.err = "TypeMismatch"
                  /\ ~StoresTo(g.out, r.info.ptr)

\* C6 witness: an i1 value assigned to an i32 var has failed with
\* TypeMismatch, and the block holds the one store of the declaration.
C6_Witness ==
    /\ result = "TypeMismatch"
    /\ <<1>> \in DOMAIN ast /\ ast[<<1>>].s = "VarDecl"
    /\ <<2>> \in DOMAIN ast /\ ast[<<2>>] = Assign(ast[<<1>>].name, BoolLit(TRUE))
    /\ DOMAIN ast = {<<1>>, <<2>>}
    /\ ~StoresTo(SubSeq(blocks[1].instrs, 3, Len(blocks[1].instrs)), <<1>>)

\* The place of the statement list that is the body of function f.
BodyPath(f) == IF funcs[f].decl = << >> THEN << >> ELSE funcs[f].decl \o <<1>>

\* The statements of the list at place q that lowering has reached.
StmtsAt(q) == {p \in DOMAIN ast : Len(p) = Len(q) + 1 /\ Front(p) = q}

\* The lowering of function f is over: gen_block has returned from its body
\* and the arm that added it is not running any more.
FnLowered(f) ==
    /\ result \in {"running", "ok", "VerificationFailed"}
    /\ BodyPath(f) \notin OpenBlocks
    /\ funcs[f].decl \notin OpenFns

\* The body of f has no trailing expression and no return in last position.
NoExplicitReturn(f) ==
    \A p \in StmtsAt(BodyPath(f)) :
        (\A q \in StmtsAt(BodyPath(f)) : Last(q) <= Last(p))
           => ast[p].s \notin {"Expr", "Return"}

\* The list gen_block is in is the body of a function.
InFnBody ==
    \E f \in 1..Len(funcs) : Top.path = BodyPath(f)

\* What a tail expression would do if it were the next statement lowered.
TailOutcome(st) ==
    gen_tail_expr(scopes, funcs, insert, NextIndex, st, Top.is_last_block)

\* C7: a function body that ends in a bare expression returns that
\* expression's value, and a function whose body has no trailing expression
\* and no return in last position has, once it is lowered, a last block
\* that ends in a synthesized void return.
C7_TailOrVoidReturn ==
    /\ (Lowering /\ InFnBody) =>
          \A st \in TailPool :
              LET v == gen_expr(scopes, funcs, insert, NextIndex, st.expr)
                  g == TailOutcome(st)
              IN v.err = "none" => /\ g.err = "none"
                                   /\ g.out # << >>
                                   /\ Last(g.out) = Ret(v.val)
    /\ \A f \in 1..Len(funcs) :
          (FnLowered(f) /\ StmtsAt(BodyPath(f)) # {} /\ NoExplicitReturn(f)) =>
              LET bl == blocks[Last(funcs[f].blocks)] IN
              has_terminator(bl) /\ Last(bl.instrs) = Ret(NoVal)

\* C8 as written: a tail expression emits a return only when the block it
\* ends is the outermost body of the function; one that ends a then- or
\* else-branch is evaluated and emits no return.
C8_AsWritten ==
    Lowering =>
        \A st \in TailPool :
            LET g == TailOutcome(st) IN
            g.err = "none" => (HasReturn(g.out) <=> InFnBody)

\* C8 amended: a tail expression always emits a return of its value into
\* the block the builder is at, in the outermost body of a function and in
\* a then- or else-branch alike, whether or not the If of the branch is the
\* last statement of the body.
C8_TailAlwaysReturns ==
    Lowering =>
        \A st \in TailPool :
            LET v == gen_expr(scopes, funcs, insert, NextIndex, st.expr)
                g == TailOutcome(st)
            IN v.err = "none" => /\ g.err = "none"
                                 /\ g.out # << >>
                                 /\ Last(g.out) = Ret(v.val)

\* C8 witness: the tail expression of the then-branch of an If that
\* another statement follows has put its return into the then block.
C8_Witness ==
    /\ result = "running"
    /\ <<1>> \in DOMAIN ast /\ ast[<<1>>].s = "If"
    /\ <<1, 1, 1>> \in DOMAIN ast /\ ast[<<1, 1, 1>>].s = "Expr"
    /\ <<2>> \in DOMAIN ast
    /\ \E b \in 1..Len(blocks) :
          /\ blocks[b].label = "then"
          /\ blocks[b].instrs = <<Ret(Const("i32", ast[<<1, 1, 1>>].expr.v))>>

(***************************************************************************)
(* Running the functions of the module (the tests link the module and read *)
(* main's return value as the exit code): what the instructions built above*)
(* do when the function runs.  No branch built by the If arm goes to an    *)
(* earlier block, so a run ends; a call deeper than the number of functions*)
(* is not followed.                                                        *)
(***************************************************************************)
\* The value of operand v in a run with registers regs and arguments args.
Eval(v, regs, args) ==
    CASE v.k = "const" -> v.n
      [] v.k = "inst" -> regs[<<v.b, v.n>>]
      [] v.k = "param" -> args[v.n]

\* sdiv rounds toward zero.
SDiv(a, b) ==
    LET q == (IF a < 0 THEN -a ELSE a) \div (IF b < 0 THEN -b ELSE b) IN
    IF (a < 0) = (b < 0) THEN q ELSE -q

ICmp(pred, a, b) ==
    LET holds == CASE pred = "Equal" -> a = b
                   [] pred = "NotEqual" -> a # b
                   [] pred = "LessThan" -> a < b
                   [] pred = "LessThanOrEqual" -> a <= b
                   [] pred = "GreaterThan" -> a > b
                   [] pred = "GreaterThanOrEqual" -> a >= b
    IN IF holds THEN 1 ELSE 0

\* The result of a two-operand instruction on values of small magnitude.
Arith(op, a, b) ==
    CASE op = "add" -> a + b
      [] op = "sub" -> a - b
      [] op = "mul" -> a * b
      [] op = "sdiv" -> SDiv(a, b)
      [] op = "and" -> IF a = 0 \/ b = 0 THEN 0 ELSE 1
      [] op = "or" -> IF a = 0 /\ b = 0 THEN 0 ELSE 1

Halt(kind, val, visited) == [kind |-> kind, val |-> val, visited |-> visited]

RECURSIVE Exec(_, _, _, _, _, _, _, _, _, _)

\* The run of function f from instruction i of block b: how it ends ("ret",
\* or "stuck" where the IR has no defined next step), the value returned,
\* and the blocks of f it has entered, in order.
Exec(fs, bls, f, args, b, i, regs, mem, visited, depth) ==
    IF bls[b].fn # f \/ i > Len(bls[b].instrs)
    THEN Halt("stuck", 0, visited)
    ELSE
    LET ins == bls[b].instrs[i]
        step(r, m) == Exec(fs, bls, f, args, b, i + 1, r, m, visited, depth)
        set(r, v) == [x \in DOMAIN r \cup {<<b, i>>} |->
                         IF x = <<b, i>> THEN v ELSE r[x]]
        goto(d) == Exec(fs, bls, f, args, d, 1, regs, mem,
                        Append(visited, d), depth)
    IN
    CASE ins.op = "alloca" -> step(regs, mem)
      [] ins.op = "store" ->
            step(regs, [x \in DOMAIN mem \cup {ins.ptr} |->
                           IF x = ins.ptr THEN Eval(ins.val, regs, args)
                           ELSE mem[x]])
      [] ins.op = "load" ->
            IF ins.ptr \in DOMAIN mem THEN step(set(regs, mem[ins.ptr]), mem)
            ELSE Halt("stuck", 0, visited)
      [] ins.op \in {"add", "sub", "mul", "sdiv", "and", "or"} ->
            LET a == Eval(ins.lhs, regs, args)
                c == Eval(ins.rhs, regs, args)
            IN IF ins.op = "sdiv" /\ c = 0 THEN Halt("stuck", 0, visited)
               ELSE step(set(regs, Arith(ins.op, a, c)), mem)
      [] ins.op = "icmp" ->
            step(set(regs, ICmp(ins.pred, Eval(ins.lhs, regs, args),
                                Eval(ins.rhs, regs, args))), mem)
      [] ins.op = "not" ->
            LET a == Eval(ins.val, regs, args) IN
            step(set(regs, IF ins.val.ty = "i1" THEN 1 - a ELSE -a - 1), mem)
      [] ins.op = "call" ->
            IF depth >= Len(fs) \/ fs[ins.fn].blocks = << >>
            THEN Halt("stuck", 0, visited)
            ELSE LET r == Exec(fs, bls, ins.fn,
                               [j \in 1..Len(ins.args) |->
                                   Eval(ins.args[j], regs, args)],
                               fs[ins.fn].blocks[1], 1, << >>, << >>,
                               <<fs[ins.fn].blocks[1]>>, depth + 1)
                 IN IF r.kind # "ret" THEN Halt("stuck", 0, visited)
                    ELSE step(set(regs, r.val), mem)
      [] ins.op = "ret" ->
            Halt("ret", IF ins.val = NoVal THEN 0
                        ELSE Eval(ins.val, regs, args), visited)
      [] ins.op = "br" -> goto(ins.dest)
      [] ins.op = "condbr" ->
            IF Eval(ins.cond, regs, args) # 0 THEN goto(ins.then)
            ELSE goto(ins.else)

\* The run of function f on arguments args.
Run(fs, bls, f, args) ==
    Exec(fs, bls, f, args, fs[f].blocks[1], 1, << >>, << >>,
         <<fs[f].blocks[1]>>, 0)

(***************************************************************************)
(* Claims about the If arm.                                                *)
(***************************************************************************)
\* The If arms that are running, innermost last.
IfFrames == {j \in 1..Len(stack) : stack[j].k = "if"}

\* The If arm at the top of the stack is about to take its next step, for
\* an If that is not in tail position (is_last_stmt is false).
AfterBranch ==
    /\ result = "running"
    /\ stack # << >>
    /\ Top.k = "if"
    /\ ~Top.is_last_stmt

\* The block the false edge of the If arm fr goes to.
FalseTarget(fr) ==
    IF fr.else_block # 0 THEN fr.else_block ELSE fr.merge_block

\* The value gen_expr gives the conditions of CondPool.
CondValue(condition) == Const("i1", IF condition.b THEN 1 ELSE 0)

\* The blocks of the If that is the first statement of the Program: they
\* are appended to main right after its entry block.
FirstIfElse == IF ast[<<1>>].has_else THEN 3 ELSE 0
FirstIfMerge == IF ast[<<1>>].has_else THEN 4 ELSE 3

\* C9, in every state: while the arm of an If that is not in tail position
\* runs, a block of its function ends in the conditional branch on the
\* condition's value, to the then block when it is true and to the else
\* block (the merge block when there is no else) when it is false; when the
\* loop of gen_block is at the statement after an If, the builder is at the
\* end of a merge block that is still part of its function, so that the
\* statement is emitted there; and the main of a verified Program that
\* starts with such an If enters the then block on a true condition, the
\* else block on a false one, and goes from the entry block straight to the
\* merge block, where it returns what the following statements return, when
\* the condition is false and there is no else.
C9_State ==
    /\ result = "running" =>
          \A j \in IfFrames :
              ~stack[j].is_last_stmt =>
                  \E b \in 1..Len(blocks) :
                      /\ blocks[b].fn = blocks[stack[j].then_block].fn
                      /\ blocks[b].fn # 0
                      /\ blocks[b].instrs # << >>
                      /\ Last(blocks[b].instrs) =
                            CondBr(CondValue(ast[stack[j].path].condition),
                                   stack[j].then_block, FalseTarget(stack[j]))
                      /\ blocks[stack[j].merge_block].fn = blocks[b].fn
    /\ (/\ Lowering
        /\ Top.i >= 1
        /\ ast[Top.path \o <<Top.i>>].s = "If") =>
          /\ blocks[insert].label = "ifcont"
          /\ blocks[insert].fn # 0
          /\ blocks[insert].instrs = << >>
          /\ \E j \in 1..Len(funcs[blocks[insert].fn].blocks) :
                funcs[blocks[insert].fn].blocks[j] = insert
    /\ (/\ result = "ok"
        /\ <<1>> \in DOMAIN ast /\ ast[<<1>>].s = "If"
        /\ <<2>> \in DOMAIN ast) =>
          LET r == Run(funcs, blocks, 1, << >>) IN
          /\ r.kind = "ret"
          /\ r.visited[2] = (IF ast[<<1>>].condition.b THEN 2
                             ELSE IF ast[<<1>>].has_else THEN FirstIfElse
                             ELSE FirstIfMerge)
          /\ (~ast[<<1>>].condition.b /\ ~ast[<<1>>].has_else) =>
                /\ SubSeq(r.visited, 1, 2) = <<1, FirstIfMerge>>
                /\ ast[<<2>>].s \in {"Expr", "Return"} =>
                      /\ r.visited = <<1, FirstIfMerge>>
                      /\ r.val = ast[<<2>>].expr.v

\* C9, in every step of the arm of an If that is not in tail position after
\* gen_block has returned from a branch: the block the builder is at gets a
\* jump to the merge block unless it ends in a terminator, and is left as
\* it is if it does; and at the end of the arm the builder is put at the
\* end of the merge block.
C9_Step ==
    AfterBranch =>
        /\ blocks'[insert].instrs =
              (IF has_terminator(blocks[insert]) THEN blocks[insert].instrs
               ELSE Append(blocks[insert].instrs, Br(Top.merge_block)))
        /\ LET branch_block == IF Top.phase = "then" THEN Top.then_block
                                ELSE Top.else_block
           IN ~has_terminator(blocks[branch_block]) =>
                 blocks'[branch_block].instrs =
                    Append(blocks[branch_block].instrs, Br(Top.merge_block))
        /\ Len(stack') < Len(stack) =>
              /\ insert' = Top.merge_block
              /\ blocks'[insert'].fn = blocks[Top.then_block].fn
              /\ funcs' = funcs

\* C9: an If that is not the last statement of its function body branches
\* to then on true and to else (merge without an else) on false, every
\* branch that does not end in a terminator jumps to merge, and the
\* statements after the If are emitted into the merge block, so that an If
\* with a false condition and no else falls through to them.
C9_IfNotLast == [](C9_State) /\ [][C9_Step]_vars

\* C9 witness: the main of a verified Program whose If has a false
\* condition, no else and a then-branch that returns 2 has gone from entry
\* to the merge block and returned the 1 of the statement after the If.
C9_Witness ==
    /\ result = "ok"
    /\ <<1>> \in DOMAIN ast /\ ast[<<1>>] = If(BoolLit(FALSE), FALSE)
    /\ <<1, 1, 1>> \in DOMAIN ast /\ ast[<<1, 1, 1>>] = Expr(IntLit(2))
    /\ <<2>> \in DOMAIN ast /\ ast[<<2>>] = Expr(IntLit(1))
    /\ Run(funcs, blocks, 1, << >>) = Halt("ret", 1, <<1, 3>>)

\* C9, a jump built: a then-branch that ends without a terminator has got
\* its jump to the merge block.
C9_JumpReached ==
    /\ result = "ok"
    /\ <<1>> \in DOMAIN ast /\ ast[<<1>>] = If(BoolLit(TRUE), FALSE)
    /\ <<1, 1, 1>> \in DOMAIN ast /\ ast[<<1, 1, 1>>].s = "VarDecl"
    /\ Last(blocks[2].instrs) = Br(3)
    /\ Run(funcs, blocks, 1, << >>).visited = <<1, 2, 3>>

\* The last statement of the list at place q that lowering has reached
\* (the list is not empty).
LastStmt(q) ==
    ast[CHOOSE p \in StmtsAt(q) : \A r \in StmtsAt(q) : Last(r) <= Last(p)]

\* The branch at place q ends in a return or a tail expression.
EndsInTerminator(q) ==
    /\ StmtsAt(q) # {}
    /\ LastStmt(q).s \in {"Return", "Expr"}

\* The If statements of the list at place q.
IfsAt(q) == {p \in StmtsAt(q) : ast[p].s = "If"}

\* The values of the return statements and tail expressions of the list at
\* place q and of the branches of its If statements.
ReturnedIn(q) ==
    {ast[p].expr.v :
        p \in {r \in DOMAIN ast : /\ Len(r) > Len(q)
                                  /\ SubSeq(r, 1, Len(q)) = q
                                  /\ ast[r].s \in {"Return", "Expr"}
                                  /\ ast[r].expr.e = "IntLit"}}

\* The block b is a target of instruction ins.
References(ins, b) ==
    \/ ins.op = "br" /\ ins.dest = b
    \/ ins.op = "condbr" /\ (ins.then = b \/ ins.else = b)

\* The arm of an If in tail position that has an else is at its end, and
\* both branches ended in a return or a tail expression.
TailIfEnds ==
    /\ result = "running"
    /\ stack # << >>
    /\ Top.k = "if"
    /\ Top.phase = "else"
    /\ Top.is_last_stmt
    /\ EndsInTerminator(Top.path \o <<1>>)
    /\ EndsInTerminator(Top.path \o <<2>>)

\* The If with an else that is the last statement of the Program, at place
\* <<k>>, when no statement before it has appended a block to main.
LastIfAt(k) ==
    /\ <<k>> \in DOMAIN ast
    /\ <<k + 1>> \notin DOMAIN ast
    /\ ast[<<k>>].s = "If"
    /\ ast[<<k>>].has_else
    /\ \A j \in 1..(k - 1) :
          ast[<<j>>].s \in {"LetDecl", "VarDecl", "Assign", "ExprStmt"}
    /\ EndsInTerminator(<<k, 1>>) /\ LastStmt(<<k, 1>>).expr.e = "IntLit"
    /\ EndsInTerminator(<<k, 2>>) /\ LastStmt(<<k, 2>>).expr.e = "IntLit"

\* C10, in the step that ends the arm of an If with an else in tail
\* position whose branches both end in a return or a tail expression: the
\* merge block is removed from the function; the block each branch was at
\* when it ended (the then and the else block themselves, when the branch
\* holds no If of its own) ends in a return; and no instruction of the
\* function goes to the merge block.
C10_Step ==
    TailIfEnds =>
        LET f == blocks[Top.then_block].fn
            m == Top.merge_block
        IN
        /\ blocks'[m].fn = 0
        /\ \A j \in 1..Len(funcs'[f].blocks) : funcs'[f].blocks[j] # m
        /\ Last(blocks'[Top.then_end].instrs).op = "ret"
        /\ Last(blocks'[insert].instrs).op = "ret"
        /\ IfsAt(Top.path \o <<1>>) = {} => Top.then_end = Top.then_block
        /\ IfsAt(Top.path \o <<2>>) = {} => insert = Top.else_block
        /\ \A b \in 1..Len(blocks') :
              blocks'[b].fn = f =>
                 \A i \in 1..Len(blocks'[b].instrs) :
                    ~References(blocks'[b].instrs[i], m)

\* C10 as written, in the step that ends the arm: as C10_Step, with the
\* then block and the else block themselves ending in a return.
C10_StepAsWritten ==
    TailIfEnds =>
        LET f == blocks[Top.then_block].fn
            m == Top.merge_block
        IN
        /\ blocks'[m].fn = 0
        /\ \A j \in 1..Len(funcs'[f].blocks) : funcs'[f].blocks[j] # m
        /\ Last(blocks'[Top.then_block].instrs).op = "ret"
        /\ Last(blocks'[Top.else_block].instrs).op = "ret"
        /\ \A b \in 1..Len(blocks') :
              blocks'[b].fn = f =>
                 \A i \in 1..Len(blocks'[b].instrs) :
                    ~References(blocks'[b].instrs[i], m)

\* C10, in every state: the main of a compiled Program that ends in such an
\* If has lost the merge block, and its run enters the then block on a true
\* condition and the else block on a false one and returns the value of
\* that branch.
C10_State ==
    \A k \in 1..limit :
        (/\ result = "ok"
         /\ Len(funcs) = 1
         /\ LastIfAt(k)) =>
            LET r == Run(funcs, blocks, 1, << >>)
                taken == IF ast[<<k>>].condition.b THEN 1 ELSE 2
            IN
            /\ blocks[4].fn = 0
            /\ r.kind = "ret"
            /\ Len(r.visited) >= 2
            /\ r.visited[2] = taken + 1
            /\ r.val \in ReturnedIn(<<k, taken>>)
            /\ IfsAt(<<k, taken>>) = {} => r.val = LastStmt(<<k, taken>>).expr.v

\* C10 as written: when an If with an else is the last statement of the
\* function body and both branches end in a return or a tail expression,
\* the merge block is removed from the function, the then and else blocks
\* each end in a return, no instruction of the function references the
\* merge block, and the run of the function returns the value of the
\* branch the condition selects.
C10_AsWritten == [](C10_State) /\ [][C10_StepAsWritten]_vars

\* C10 amended: under the same conditions the merge block is removed from
\* the function, the block in which each branch ends is terminated by a
\* return (the then or else block itself when the branch holds no If of its
\* own, else the merge block of the last If of the branch), no instruction
\* of the function references the removed merge block, and the run of the
\* function returns the value the selected branch returns.
C10_TailIfPruned == [](C10_State) /\ [][C10_Step]_vars

\* C10 witness: `if false { 1 } else { 2 }` is lowered and verified, its
\* merge block is out of main, and main returns 2 from the else block.
C10_Witness ==
    /\ result = "ok"
    /\ DOMAIN ast = {<<1>>, <<1, 1, 1>>, <<1, 2, 1>>}
    /\ ast[<<1>>] = If(BoolLit(FALSE), TRUE)
    /\ ast[<<1, 1, 1>>] = Expr(IntLit(1))
    /\ ast[<<1, 2, 1>>] = Expr(IntLit(2))
    /\ funcs[1].blocks = <<1, 2, 3>>
    /\ blocks[4].fn = 0
    /\ Run(funcs, blocks, 1, << >>) = Halt("ret", 2, <<1, 3>>)

(***************************************************************************)
(* Claims about errors.                                                    *)
(***************************************************************************)
\* compile has returned the error of a statement.
Failed == result \notin {"env", "new", "running", "ok", "VerificationFailed"}

\* What gen_stmt returns for a statement of the pools that calls gen_block
\* for no list of its own.
StmtOutcome(st) ==
    CASE st.s = "LetDecl" -> gen_let(scopes, funcs, insert, NextIndex, st, StmtPath)
      [] st.s = "VarDecl" -> gen_var(scopes, funcs, insert, NextIndex, st, StmtPath)
      [] st.s = "Assign" -> gen_assign(scopes, funcs, insert, NextIndex, st)
      [] st.s = "Return" -> gen_return(scopes, funcs, insert, NextIndex, st)
      [] st.s = "ExprStmt" -> gen_expr_stmt(scopes, funcs, insert, NextIndex, st)
      [] st.s = "Expr" -> gen_tail_expr(scopes, funcs, insert, NextIndex, st,
                                        Top.is_last_block)

\* C11, in every state: once compile has returned an error no activation of
\* gen_block or gen_stmt is left to lower anything.
C11_State == Failed => stack = << >>

\* C11, in every step: a step that ends in an error is the lowering of one
\* statement, the one gen_block's loop was at, and the error is the one
\* gen_stmt returns for it; after an error nothing is lowered, no
\* instruction is emitted and the result stays that error (verification
\* does not run).
C11_Step ==
    /\ (result = "running" /\ Failed') =>
          /\ Lowering
          /\ DOMAIN ast' = DOMAIN ast \cup {StmtPath}
          /\ StmtPath \notin DOMAIN ast
          /\ \A p \in DOMAIN ast : ast'[p] = ast[p]
          /\ ast'[StmtPath].s \notin {"If", "FnDecl"} =>
                /\ result' = StmtOutcome(ast'[StmtPath]).err
                /\ blocks' = Emit(blocks, insert,
                                  StmtOutcome(ast'[StmtPath]).out)
          /\ \A b \in 1..Len(blocks) :
                b # insert => blocks'[b] = blocks[b]
    /\ Failed => UNCHANGED <<result, ast, blocks, funcs, insert, scopes, stack>>

\* C11: every lowering error aborts the whole compilation at the first
\* failing statement: no later statement of any enclosing block or function
\* is lowered, no further instruction is emitted, and compile returns that
\* first error without running verification.
C11_FirstErrorAborts == [](C11_State) /\ [][C11_Step]_vars

\* C11 witness: an assignment in the then-branch of an If has failed;
\* compile has returned its error with every activation gone, the then
\* block left without its jump and the merge block left empty.
C11_Witness ==
    /\ Failed
    /\ DOMAIN ast = {<<1>>, <<1, 1, 1>>}
    /\ ast[<<1>>].s = "If"
    /\ ast[<<1, 1, 1>>].s = "Assign"
    /\ limit > Cardinality(DOMAIN ast)
    /\ stack = << >>
    /\ blocks[3].label = "ifcont" /\ blocks[3].instrs = << >>
    /\ ~has_terminator(blocks[2])

(***************************************************************************)
(* Binary operators.                                                       *)
(***************************************************************************)
Arithmetic == {"Add", "Sub", "Mul", "Div"}

Comparisons == {"Equal", "NotEqual", "LessThan", "LessThanOrEqual",
                "GreaterThan", "GreaterThanOrEqual"}

\* The step lowers a tail expression that is a binary operation of ops.
LowersBinOp(ops) ==
    /\ Lowering
    /\ StmtPath \notin DOMAIN ast
    /\ StmtPath \in DOMAIN ast'
    /\ ast'[StmtPath].s = "Expr"
    /\ ast'[StmtPath].expr.e = "BinOp"
    /\ ast'[StmtPath].expr.op \in ops

\* The two operands of that operation as gen_expr lowers them, left first.
LhsOf(e) == gen_expr(scopes, funcs, insert, NextIndex, e.lhs)

RhsOf(e) ==
    gen_expr(scopes, funcs, insert, NextIndex + Len(LhsOf(e).out), e.rhs)

\* The instructions the step appended to the block the builder is in.
Appended ==
    SubSeq(blocks'[insert].instrs, NextIndex, Len(blocks'[insert].instrs))

\* C12: lowering an arithmetic operation or a comparison whose operands are
\* lowered to values of different types fails with a type mismatch, and the
\* block gets the operands' instructions and none for the operation; with
\* operands of one integer type the block then gets one instruction for the
\* operation, whose value has the operands' type for an arithmetic operation
\* and is a single-bit integer for a comparison.
C12_Step ==
    LowersBinOp(Arithmetic \cup Comparisons) =>
        LET e == ast'[StmtPath].expr
            l == LhsOf(e)
            r == RhsOf(e)
        IN  (l.err = "none" /\ r.err = "none") =>
              /\ l.val.ty # r.val.ty =>
                    /\ result' = "TypeMismatch"
                    /\ Appended = l.out \o r.out
              /\ (l.val.ty = r.val.ty /\ l.val.ty \in IntTypes) =>
                    /\ result' = "running"
                    /\ Len(Appended) = Len(l.out) + Len(r.out) + 2
                    /\ SubSeq(Appended, 1, Len(l.out) + Len(r.out))
                          = l.out \o r.out
                    /\ Appended[Len(Appended) - 1].op
                          \in {"add", "sub", "mul", "sdiv", "icmp"}
                    /\ Appended[Len(Appended) - 1].lhs = l.val
                    /\ Appended[Len(Appended) - 1].rhs = r.val
                    /\ Last(Appended).op = "ret"
                    /\ Last(Appended).val.k = "inst"
                    /\ Last(Appended).val.n = Len(blocks'[insert].instrs) - 1
                    /\ Last(Appended).val.ty
                          = IF e.op \in Arithmetic THEN l.val.ty ELSE "i1"

C12_BinaryTypesChecked == [][C12_Step]_vars

\* `var x: i64; x < 10` was lowered: the load of x and no comparison.
C12_Witness ==
    /\ result = "TypeMismatch"
    /\ DOMAIN ast = {<<1>>, <<2>>}
    /\ ast[<<1>>] = VarDecl("x", "I64", NoExpr)
    /\ ast[<<2>>] = Expr(BinOp(VarRef("x"), "LessThan", IntLit(10)))
    /\ Len(blocks[1].instrs) = 3
    /\ Last(blocks[1].instrs).op = "load"

\* `var x: i32 = 10; x + 3` was lowered and the module verified.
C12_SameTypeReached ==
    /\ result = "ok"
    /\ DOMAIN ast = {<<1>>, <<2>>}
    /\ ast[<<1>>] = VarDecl("x", "I32", IntLit(10))
    /\ ast[<<2>>] = Expr(BinOp(VarRef("x"), "Add", IntLit(3)))

\* C13: lowering && or || lowers the left operand and then the right operand
\* whatever the left one is, into the block the builder is in, and then one
\* and/or instruction on the two values: no block is added and no branch is
\* built, so running the code evaluates both sides.
C13_Step ==
    LowersBinOp({"And", "Or"}) =>
        LET e == ast'[StmtPath].expr
            l == LhsOf(e)
            r == RhsOf(e)
        IN  /\ Len(blocks') = Len(blocks)
            /\ \A i \in 1..Len(Appended) :
                  Appended[i].op \notin {"br", "condbr"}
            /\ l.err = "none" =>
                  /\ Len(Appended) >= Len(l.out) + Len(r.out)
                  /\ SubSeq(Appended, 1, Len(l.out) + Len(r.out))
                        = l.out \o r.out
            /\ (l.err = "none" /\ r.err = "none"
                   /\ l.val.ty \in IntTypes /\ r.val.ty \in IntTypes) =>
                  /\ result' = "running"
                  /\ Appended = l.out \o r.out
                        \o <<BinInst(IF e.op = "And" THEN "and" ELSE "or",
                                     l.val, r.val),
                             Ret(InstVal(l.val.ty, insert,
                                         NextIndex + Len(l.out) + Len(r.out)))>>

C13_NoShortCircuit == [][C13_Step]_vars

\* `var x: i32 = 10; let y = 3; x < 10 && y == 3` was lowered: the left side
\* is false when run, and the load of y and its comparison are in main
\* between the comparison of x and the and.
C13_Witness ==
    /\ result = "running"
    /\ DOMAIN ast = {<<1>>, <<2>>, <<3>>}
    /\ ast[<<3>>] = Expr(BinOp(BinOp(VarRef("x"), "LessThan", IntLit(10)),
                               "And",
                               BinOp(VarRef("y"), "Equal", IntLit(3))))
    /\ ast[<<1>>] = VarDecl("x", "I32", IntLit(10))
    /\ Len(blocks) = 1
    /\ Len(blocks[1].instrs) = 10
    /\ blocks[1].instrs[5].op = "load"
    /\ blocks[1].instrs[6].op = "icmp"
    /\ blocks[1].instrs[7].op = "load"
    /\ blocks[1].instrs[8].op = "icmp"
    /\ blocks[1].instrs[9] = BinInst("and", InstVal("i1", 1, 6),
                                     InstVal("i1", 1, 8))
    /\ Run(funcs, blocks, 1, << >>).val = 0

(***************************************************************************)
(* Function calls.                                                         *)
(***************************************************************************)
\* The step lowers a tail expression that is a function call.
LowersFnCall ==
    /\ Lowering
    /\ StmtPath \notin DOMAIN ast
    /\ StmtPath \in DOMAIN ast'
    /\ ast'[StmtPath].s = "Expr"
    /\ ast'[StmtPath].expr.e = "FnCall"

\* The arguments of a call as gen_expr's loop lowers them.
ArgsOf(e) ==
    gen_args(scopes, funcs, insert, NextIndex, e.args, 1, << >>, << >>)

\* The function whose body gen_block's loop is in (0: the implicit main's).
Enclosing ==
    IF \E f \in 1..Len(funcs) : Top.path = BodyPath(f)
    THEN CHOOSE f \in 1..Len(funcs) : Top.path = BodyPath(f)
    ELSE 0

\* The functions add_function was called for with that name.
Added(name) == {f \in 1..Len(funcs) : funcs[f].decl # << >>
                                       /\ ast[funcs[f].decl].name = name}

\* C14: a call is resolved among the functions added so far.  A name none
\* of them has fails with UnboundName and nothing is built, whatever the
\* arguments would build; a name the function being lowered was added with
\* resolves inside its own body; and once the arguments are lowered the
\* call is built on them whatever their number and types are, the callee's
\* parameters not being looked at.
C14_Step ==
    LowersFnCall =>
        LET e == ast'[StmtPath].expr
            f == get_function(funcs, e.name)
            a == ArgsOf(e)
        IN  /\ (Added(e.name) = {} /\ e.name # "main") =>
                  /\ result' = "UnboundName"
                  /\ Appended = << >>
            /\ (Enclosing # 0 /\ Enclosing \in Added(e.name)) =>
                  /\ f \in Added(e.name)
                  /\ Added(e.name) = {Enclosing} => f = Enclosing
            /\ (Added(e.name) # {} /\ a.err = "none") =>
                  /\ f \in Added(e.name)
                  /\ result' \in {"running", "Panic"}
                  /\ result' = "Panic" <=> funcs[f].ret = "void"
                  /\ Len(Appended) >= Len(a.out) + 1
                  /\ SubSeq(Appended, 1, Len(a.out) + 1)
                        = Append(a.out, Call(f, a.vals))

C14_CallResolvesByName == [][C14_Step]_vars

\* `fn f(x: i32) -> i32 { f(x) } f(true)` was lowered: f's body calls f, and
\* main calls f on a value that is not of its parameter's type.
C14_Witness ==
    /\ result = "running"
    /\ DOMAIN ast = {<<1>>, <<1, 1, 1>>, <<2>>}
    /\ ast[<<1>>].s = "FnDecl"
    /\ ast[<<1>>].name = "f"
    /\ ast[<<1, 1, 1>>] = Expr(FnCall("f", <<VarRef("x")>>))
    /\ ast[<<2>>] = Expr(FnCall("f", <<BoolLit(TRUE)>>))
    /\ funcs[2].decl = <<1>>
    /\ funcs[2].params = <<"i32">>
    /\ blocks[2].instrs[4] = Call(2, <<InstVal("i32", 2, 3)>>)
    /\ blocks[1].instrs[1] = Call(2, <<Const("i1", 1)>>)

\* `let y = 3; h(3, y)` was lowered: no function is named h, and main holds
\* the slot of y and no load of it.
C14_UnknownReached ==
    /\ result = "UnboundName"
    /\ DOMAIN ast = {<<1>>, <<2>>}
    /\ ast[<<1>>] = LetDecl("y", NoType, IntLit(3))
    /\ ast[<<2>>] = Expr(FnCall("h", <<IntLit(3), VarRef("y")>>))
    /\ Len(blocks[1].instrs) = 2

\* `fn f(x: i32) -> i32 { x } f()` was lowered: the call has no argument.
C14_CountReached ==
    /\ result = "running"
    /\ DOMAIN ast = {<<1>>, <<1, 1, 1>>, <<2>>}
    /\ ast[<<1>>].name = "f"
    /\ ast[<<2>>] = Expr(FnCall("f", << >>))
    /\ blocks[1].instrs[1] = Call(2, << >>)

(***************************************************************************)
(* Variables when the code runs.                                           *)
(***************************************************************************)
\* The number of statements of the top level lowered so far.
TopLevel == Cardinality({p \in DOMAIN ast : Len(p) = 1})

\* The number a literal stands for.
Literal(e) ==
    CASE e.e = "IntLit" -> e.v
      [] e.e = "BoolLit" -> IF e.b THEN 1 ELSE 0
      [] OTHER -> 0

RECURSIVE Stored(_, _)
\* What the source says name holds after the first k statements of the top
\* level, all of whose declarations and assignments have literal values: the
\* value of the latest of them that names it.
Stored(name, k) ==
    IF k = 0 THEN 0
    ELSE LET st == ast[<<k>>] IN
         IF st.s \in {"LetDecl", "VarDecl", "Assign"} /\ st.name = name
         THEN Literal(st.value)
         ELSE Stored(name, k - 1)

\* C19: when a Program of declarations and assignments of literals that
\* ends in `v` or `v + c` is compiled, running main returns what the latest
\* declaration or assignment of v gave it (plus c): the initializer for a
\* let, the value of the last assignment, if any, for a var.
C19_ReadsLatestStore ==
    (result = "ok" /\ TopLevel >= 1 /\ ast[<<TopLevel>>].s = "Expr") =>
        LET e == ast[<<TopLevel>>].expr
            r == Run(funcs, blocks, 1, << >>)
        IN  /\ e.e = "VarRef" =>
                  /\ r.kind = "ret"
                  /\ r.val = Stored(e.name, TopLevel - 1)
            /\ (e.e = "BinOp" /\ e.op = "Add" /\ e.lhs.e = "VarRef"
                   /\ e.rhs.e = "IntLit") =>
                  /\ r.kind = "ret"
                  /\ r.val = Stored(e.lhs.name, TopLevel - 1) + e.rhs.v

\* `var x: i32 = 10; x = 5; x + 10` was compiled, and main returns 15.
C19_Witness ==
    /\ result = "ok"
    /\ DOMAIN ast = {<<1>>, <<2>>, <<3>>}
    /\ ast[<<1>>] = VarDecl("x", "I32", IntLit(10))
    /\ ast[<<2>>] = Assign("x", IntLit(5))
    /\ ast[<<3>>] = Expr(BinOp(VarRef("x"), "Add", IntLit(10)))
    /\ Run(funcs, blocks, 1, << >>).val = 15

\* `let y = 3; y` was compiled, and main returns 3.
C19_LetReached ==
    /\ result = "ok"
    /\ DOMAIN ast = {<<1>>, <<2>>}
    /\ ast[<<1>>] = LetDecl("y", NoType, IntLit(3))
    /\ ast[<<2>>] = Expr(VarRef("y"))
    /\ Run(funcs, blocks, 1, << >>).val = 3

(***************************************************************************)
(* The insertion point around function bodies.                             *)
(***************************************************************************)
\* The function the statement list at place p belongs to: the one added for
\* the innermost FnDecl around it, or compile's main.
OwnerOf(p) ==
    LET Q == {f \in 1..Len(funcs) :
                /\ funcs[f].decl # << >>
                /\ Len(funcs[f].decl) < Len(p)
                /\ SubSeq(p, 1, Len(funcs[f].decl)) = funcs[f].decl}
    IN  IF Q = {} THEN 1
        ELSE CHOOSE f \in Q :
                \A g \in Q : Len(funcs[g].decl) <= Len(funcs[f].decl)

\* Whenever gen_block's loop is about to lower a statement, the builder is
\* in a block of the function the statement list belongs to.
C20_State == Lowering => blocks[insert].fn = OwnerOf(Top.path)

\* The FnDecl arm keeps the block that is current when it starts, and when
\* it returns the builder is at that block, which is not one of the
\* function declared.
C20_Step ==
    /\ (Lowering /\ Len(stack') = Len(stack) + 2) =>
          (stack'[Len(stack) + 1].k = "fn" =>
              stack'[Len(stack) + 1].initial_pos = insert)
    /\ (result = "running" /\ stack # << >> /\ Top.k = "fn"
           /\ result' = "running") =>
          /\ insert' = Top.initial_pos
          /\ blocks[insert'].fn # Top.function
          /\ blocks[insert'].fn = OwnerOf(stack'[Len(stack')].path)

Digits == {"0", "1", "2", "3", "4", "5", "6", "7", "8", "9"}

\* [a-zA-Z_] and [a-zA-Z0-9_]
IdentifierStart ==
    {"a", "b", "c", "d", "e", "f", "g", "h", "i", "j", "k", "l", "m",
     "n", "o", "p", "q", "r", "s", "t", "u", "v", "w", "x", "y", "z",
     "A", "B", "C", "D", "E", "F", "G", "H", "I", "J", "K", "L", "M",
     "N", "O", "P", "Q", "R", "S", "T", "U", "V", "W", "X", "Y", "Z", "_"}

IdentifierRest == IdentifierStart \cup Digits

\* [ \t\f\n]
Whitespace == {" ", "\t", "\f", "\n"}

\* The tokens of one character that is the prefix of no longer token.
Punctuation(c) ==
    CASE c = "+" -> "Add"
      [] c = "*" -> "Mul"
      [] c = "/" -> "Div"
      [] c = "," -> "Comma"
      [] c = ":" -> "Colon"
      [] c = ";" -> "Semicolon"
      [] c = "(" -> "LParen"
      [] c = ")" -> "RParen"
      [] c = "{" -> "LBrace"
      [] c = "}" -> "RBrace"
      [] OTHER -> "none"

\* A token with the text it has for Identifier and Integer, and its span.
Token(t, v, start, end) == [t |-> t, v |-> v, span |-> <<start, end>>]

RECURSIVE RunEnd(_, _, _)
\* The first place from i on whose character is not of class: the end of the
\* longest match of class+ at i.
RunEnd(s, i, class) ==
    IF i <= Len(s) /\ s[i] \in class THEN RunEnd(s, i + 1, class) ELSE i

\* The longest match at place i of s: the token (or "skip", or "Err" where
\* no pattern matches, which takes one character) and the place after it.
\* "fn" and "let" win over the identifier pattern on a match of that length.
next_token(s, i) ==
    LET c == s[i] IN
    CASE c \in IdentifierStart ->
            LET j == RunEnd(s, i + 1, IdentifierRest)
                text == SubSeq(s, i, j - 1)
            IN  [next |-> j,
                 tok |-> Token(IF text = <<"f", "n">> THEN "FunctionDeclaration"
                               ELSE IF text = <<"l", "e", "t">>
                                    THEN "LetDeclaration"
                               ELSE "Identifier",
                               IF text \in {<<"f", "n">>, <<"l", "e", "t">>}
                               THEN << >> ELSE text,
                               i - 1, j - 1)]
      [] c \in Digits ->
            LET j == RunEnd(s, i + 1, Digits) IN
            [next |-> j, tok |-> Token("Integer", SubSeq(s, i, j - 1), i - 1, j - 1)]
      [] c = "-" ->
            IF i < Len(s) /\ s[i + 1] = ">"
            THEN [next |-> i + 2, tok |-> Token("RightArrow", << >>, i - 1, i + 1)]
            ELSE [next |-> i + 1, tok |-> Token("Sub", << >>, i - 1, i)]
      [] Punctuation(c) # "none" ->
            [next |-> i + 1, tok |-> Token(Punctuation(c), << >>, i - 1, i)]
      [] c \in Whitespace ->
            LET j == RunEnd(s, i + 1, Whitespace) IN
            [next |-> j, tok |-> Token("skip", << >>, i - 1, j - 1)]
      [] OTHER ->
            [next |-> i + 1, tok |-> Token("Err", << >>, i - 1, i)]

\* The lexer stopping at the first place no pattern matches.
token_iter_stops_at_error(s, i) ==
    LET R[j \in 1..(Len(s) + 1)] ==
            IF j > Len(s) THEN << >>
            ELSE LET n == next_token(s, j) IN
                 IF n.tok.t = "Err" THEN << >>
                 ELSE IF n.tok.t = "skip" THEN R[n.next]
                 ELSE <<n.tok>> \o R[n.next]
    IN  R[i]

\* Token::lexer(src).spanned() from place i on, with parse's map of logos'
\* Err(()) to Token::Error: the skipped matches yield nothing.
token_iter(s, i) ==
    LET R[j \in 1..(Len(s) + 1)] ==
            IF j > Len(s) THEN << >>
            ELSE LET n == next_token(s, j) IN
                 IF n.tok.t = "skip" THEN R[n.next]
                 ELSE IF n.tok.t = "Err"
                      THEN <<[n.tok EXCEPT !.t = "Error"]>> \o R[n.next]
                 ELSE <<n.tok>> \o R[n.next]
    IN  R[i]

(***************************************************************************)
(* The parser (parser.rs).  Each parser of the grammar is an operator on   *)
(* the token sequence ts and a place i in it, which returns whether it     *)
(* matched, the place after the match, and the value it built.  A parser   *)
(* that fails leaves the input where it was: choice tries its next         *)
(* alternative and repeated ends at the place before the failed item.      *)
(***************************************************************************)
Matched(next, val) == [ok |-> TRUE, next |-> next, val |-> val]
NoMatch == [ok |-> FALSE, next |-> 0, val |-> << >>]

\* just(token)
just(ts, i, t) == i \in 1..Len(ts) /\ ts[i].t = t

\* choice((a, b)), given what each matched at the same place
choice(a, b) == IF a.ok THEN a ELSE b

\* ast::Stmt::FnDecl with its body
FnDeclBody(name, params, type, body) ==
    [s |-> "FnDecl", name |-> name, params |-> params, type |-> type,
     body |-> body]

\* The value of a decimal digit.
DigitValue(c) ==
    CASE c = "0" -> 0 [] c = "1" -> 1 [] c = "2" -> 2 [] c = "3" -> 3
      [] c = "4" -> 4 [] c = "5" -> 5 [] c = "6" -> 6 [] c = "7" -> 7
      [] c = "8" -> 8 [] c = "9" -> 9

RECURSIVE parse_integer(_)
\* str::parse::<i64> on [0-9]+, for the texts short enough not to overflow.
parse_integer(v) ==
    IF v = << >> THEN 0
    ELSE 10 * parse_integer(Front(v)) + DigitValue(Last(v))

\* select! { Token::Identifier(value) => value }
identifier(ts, i) ==
    IF just(ts, i, "Identifier") THEN Matched(i + 1, ts[i].v) ELSE NoMatch

\* select! on the identifiers that name a type
type(ts, i) ==
    IF ~just(ts, i, "Identifier") THEN NoMatch
    ELSE CASE ts[i].v = <<"i", "3", "2">> -> Matched(i + 1, "I32")
           [] ts[i].v = <<"i", "6", "4">> -> Matched(i + 1, "I64")
           [] ts[i].v = <<"f", "3", "2">> -> Matched(i + 1, "F32")
           [] ts[i].v = <<"f", "6", "4">> -> Matched(i + 1, "F64")
           [] ts[i].v = <<"v", "o", "i", "d">> -> Matched(i + 1, "Void")
           [] ts[i].v = <<"s", "t", "r", "i", "n", "g">> ->
                 Matched(i + 1, "String")
           [] OTHER -> NoMatch

RECURSIVE expr(_, _)
RECURSIVE primary(_, _)
RECURSIVE unary(_, _)
RECURSIVE multiplication(_, _)
RECURSIVE fold_multiplication(_, _, _)
RECURSIVE addition(_, _)
RECURSIVE fold_addition(_, _, _)

\* literal
literal(ts, i) ==
    IF just(ts, i, "Integer")
    THEN Matched(i + 1, IntLit(parse_integer(ts[i].v)))
    ELSE NoMatch

\* delimited_by(just(Token::LParen), just(Token::RParen)), on what expr
\* matched after place i.
delimited_by_parens(ts, i, e) ==
    IF just(ts, i, "LParen") /\ e.ok /\ just(ts, e.next, "RParen")
    THEN Matched(e.next + 1, e.val)
    ELSE NoMatch

\* primary: literal, or "(" expr ")"
primary(ts, i) == choice(literal(ts, i), delimited_by_parens(ts, i, expr(ts, i + 1)))

\* unary with the minus applied to what follows it, however tightly bound.
unary_of_expr(ts, i) ==
    LET e == expr(ts, i + 1)
        operand == primary(ts, i)
    IN  IF ~just(ts, i, "Sub") THEN operand
        ELSE IF e.ok THEN Matched(e.next, UnaryOp("Neg", e.val))
        ELSE NoMatch

\* unary: "-" primary, or primary
unary(ts, i) ==
    LET minus == just(ts, i, "Sub")
        operand == primary(ts, IF minus THEN i + 1 ELSE i)
    IN  IF minus /\ operand.ok
        THEN Matched(operand.next, UnaryOp("Neg", operand.val))
        ELSE IF minus THEN NoMatch
        ELSE operand

\* The repeated (("*" | "/") unary) of multiplication, folded to the left
\* onto lhs.
fold_multiplication(ts, i, lhs) ==
    IF ~(just(ts, i, "Mul") \/ just(ts, i, "Div")) THEN Matched(i, lhs)
    ELSE LET rhs == unary(ts, i + 1) IN
         IF ~rhs.ok THEN Matched(i, lhs)
         ELSE fold_multiplication(ts, rhs.next,
                  BinOp(lhs, IF ts[i].t = "Mul" THEN "Mul" ELSE "Div",
                        rhs.val))

\* multiplication: unary { ("*" | "/") unary }
multiplication(ts, i) ==
    LET lhs == unary(ts, i) IN
    IF lhs.ok THEN fold_multiplication(ts, lhs.next, lhs.val) ELSE NoMatch

\* The repeated (("+" | "-") multiplication) of addition, folded to the left
\* onto lhs.
fold_addition(ts, i, lhs) ==
    IF ~(just(ts, i, "Add") \/ just(ts, i, "Sub")) THEN Matched(i, lhs)
    ELSE LET rhs == multiplication(ts, i + 1) IN
         IF ~rhs.ok THEN Matched(i, lhs)
         ELSE fold_addition(ts, rhs.next,
                  BinOp(lhs, IF ts[i].t = "Add" THEN "Add" ELSE "Sub",
                        rhs.val))

\* addition: multiplication { ("+" | "-") multiplication }
addition(ts, i) ==
    LET lhs == multiplication(ts, i) IN
    IF lhs.ok THEN fold_addition(ts, lhs.next, lhs.val) ELSE NoMatch

\* expr
expr(ts, i) == addition(ts, i)

RECURSIVE statements(_, _)
RECURSIVE repeated_statement(_, _, _)
RECURSIVE separated_parameters(_, _, _)
RECURSIVE statement(_, _)
RECURSIVE expr_statement(_, _)
RECURSIVE function_body(_, _)
RECURSIVE function_declaration(_, _)

\* then_ignore(just(Token::Semicolon)) and the map to Stmt::ExprStmt, on
\* what expr matched.
then_semicolon(ts, e) ==
    IF e.ok /\ just(ts, e.next, "Semicolon")
    THEN Matched(e.next + 1, ExprStmt(e.val))
    ELSE NoMatch

\* expr_statement: expr ";"
expr_statement(ts, i) == then_semicolon(ts, expr(ts, i))

\* function_parameter: identifier ":" type
function_parameter(ts, i) ==
    LET name == identifier(ts, i) IN
    IF ~(name.ok /\ just(ts, name.next, "Colon")) THEN NoMatch
    ELSE LET ty == type(ts, name.next + 1) IN
         IF ty.ok THEN Matched(ty.next, FunctionParameter(name.val, ty.val))
         ELSE NoMatch

\* separated_by(",") after the parameters in params: a "," and one more
\* parameter, as long as both match.
separated_parameters(ts, i, params) ==
    IF ~just(ts, i, "Comma") THEN Matched(i, params)
    ELSE LET param == function_parameter(ts, i + 1) IN
         IF ~param.ok THEN Matched(i, params)
         ELSE separated_parameters(ts, param.next, Append(params, param.val))

\* function_parameters: "(" [ function_parameter { "," function_parameter } ] ")"
function_parameters(ts, i) ==
    IF ~just(ts, i, "LParen") THEN NoMatch
    ELSE LET first == function_parameter(ts, i + 1)
             params == IF first.ok
                       THEN separated_parameters(ts, first.next, <<first.val>>)
                       ELSE Matched(i + 1, << >>)
         IN  IF just(ts, params.next, "RParen")
             THEN Matched(params.next + 1, params.val)
             ELSE NoMatch

\* just(Token::LBrace).ignore_then(..).then_ignore(just(Token::RBrace)), on
\* what statements matched after place i.
delimited_by_braces(ts, i, body) ==
    IF just(ts, i, "LBrace") /\ body.ok /\ just(ts, body.next, "RBrace")
    THEN Matched(body.next + 1, body.val)
    ELSE NoMatch

\* function_body: "{" statements "}"
function_body(ts, i) == delimited_by_braces(ts, i, statements(ts, i + 1))

\* The head of a function declaration: "fn" identifier function_parameters
\* "->" type, whose value is the declaration without a body.
function_head(ts, i) ==
    IF ~just(ts, i, "FunctionDeclaration") THEN NoMatch
    ELSE LET name == identifier(ts, i + 1) IN
         IF ~name.ok THEN NoMatch
    ELSE LET params == function_parameters(ts, name.next) IN
         IF ~(params.ok /\ just(ts, params.next, "RightArrow")) THEN NoMatch
    ELSE LET return_type == type(ts, params.next + 1) IN
         IF ~return_type.ok THEN NoMatch
         ELSE Matched(return_type.next,
                      FnDeclBody(name.val, params.val, return_type.val, << >>))

\* .then(function_body) and the map to Stmt::FnDecl, on what the head and
\* the body after it matched.
then_body(head, body) ==
    IF head.ok /\ body.ok
    THEN Matched(body.next, [head.val EXCEPT !.body = body.val])
    ELSE NoMatch

\* function_declaration: "fn" identifier function_parameters "->" type
\* function_body
function_declaration(ts, i) ==
    then_body(function_head(ts, i),
              function_body(ts, function_head(ts, i).next))

\* statement: function_declaration, or expr_statement
statement(ts, i) ==
    choice(function_declaration(ts, i), expr_statement(ts, i))

\* One round of repeated(): the statement st matched at place i is
\* collected and the next one tried, or the collection ends at i.
collect(ts, i, body, st) ==
    IF ~st.ok THEN Matched(i, body)
    ELSE repeated_statement(ts, st.next, Append(body, st.val))

\* statement.repeated().collect()
repeated_statement(ts, i, body) == collect(ts, i, body, statement(ts, i))

\* statements with the optional expression taken before the statements.
statements_expr_first(ts, i) ==
    LET e == expr(ts, i)
        tail == IF e.ok /\ ~just(ts, e.next, "Semicolon")
                THEN Matched(e.next, <<Expr(e.val)>>)
                ELSE Matched(i, << >>)
        st == repeated_statement(ts, tail.next, tail.val)
    IN  st

\* The map of statements: the expression, if one matched, is pushed last as
\* a Stmt::Expr.
push_expr(st, e) ==
    IF e.ok THEN Matched(e.next, Append(st.val, Expr(e.val))) ELSE st

\* .then(expr.or_not()) on what the repeated statements matched
then_expr_or_not(ts, st) == push_expr(st, expr(ts, st.next))

\* statements: { statement } [ expr ].  It matches on every input, if only
\* the empty list.
statements(ts, i) == then_expr_or_not(ts, repeated_statement(ts, i, << >>))

\* parser(): statements, then the end of the input.  The grammar has no
\* recovery, so a failure leaves parse with errors and without output.
parser(ts) ==
    LET st == statements(ts, 1) IN
    IF st.next = Len(ts) + 1
    THEN [ok |-> TRUE, statements |-> st.val, errors |-> 0]
    ELSE [ok |-> FALSE, statements |-> << >>, errors |-> 1]

(***************************************************************************)
(* parser() on the token sequences of at most MaxLexemes lexemes.          *)
(***************************************************************************)
\* A token as the parser sees it, which does not look at spans.
Tok(t, v) == Token(t, v, 0, 0)

\* fn f(x: i32) -> i32 {
FnHead == <<Tok("FunctionDeclaration", << >>), Tok("Identifier", <<"f">>),
            Tok("LParen", << >>), Tok("Identifier", <<"x">>),
            Tok("Colon", << >>), Tok("Identifier", <<"i", "3", "2">>),
            Tok("RParen", << >>), Tok("RightArrow", << >>),
            Tok("Identifier", <<"i", "3", "2">>), Tok("LBrace", << >>)>>

Lexemes ==
    {<<Tok("Integer", <<"2">>)>>, <<Tok("Integer", <<"3">>)>>, FnHead}
    \cup {<<Tok(t, << >>)>> : t \in {"LParen", "RParen", "Sub", "Add", "Mul",
                                    "Div", "Semicolon", "RBrace"}}

RECURSIVE Flatten(_)
Flatten(ss) == IF ss = << >> THEN << >> ELSE Head(ss) \o Flatten(Tail(ss))

InitParse ==
    /\ scopes = EnvNew
    /\ env_ret = NoCall
    /\ funcs = << >>
    /\ blocks = << >>
    /\ insert = 0
    /\ stack = << >>
    /\ ast = << >>
    /\ limit = 0
    /\ src = << >>
    /\ \E n \in 0..MaxLexemes :
          \E ls \in [1..n -> Lexemes] : tokens = Flatten(ls)
    /\ program = NoProgram
    /\ result = "lexed"

\* parse's call of parser().parse(token_stream)
Parse ==
    /\ result = "lexed"
    /\ program' = parser(tokens)
    /\ result' = IF program'.ok THEN "parsed" ELSE "ParseError"
    /\ UNCHANGED <<scopes, env_ret, funcs, blocks, insert, stack, ast, limit,
                   src, tokens>>

NextParse == Parse

SpecParse == InitParse /\ [][NextParse]_vars

(***************************************************************************)
(* parse on the source texts of at most MaxSrcLen characters of SrcChars,  *)
(* and on those texts with a filler put in between two tokens.             *)
(***************************************************************************)
SrcChars == {"1", "-", ">", "f", "n", ";", "$", " "}

WhitespaceFillers == {<<" ">>, <<"\n", "\t">>}

\* A line comment and a block comment, as the languages of this family write
\* them; token.rs has a pattern for neither, nor for any other.
CommentFillers == {<<"/", "/", "c", "\n">>, <<"/", "*", "c", "*", "/">>}

InitLex ==
    /\ scopes = EnvNew
    /\ env_ret = NoCall
    /\ funcs = << >>
    /\ blocks = << >>
    /\ insert = 0
    /\ stack = << >>
    /\ ast = << >>
    /\ limit = 0
    /\ \E n \in 0..MaxSrcLen : src \in [1..n -> SrcChars]
    /\ tokens = << >>
    /\ program = NoProgram
    /\ result = "source"

\* parse's token_iter over src
Lex ==
    /\ result = "source"
    /\ tokens' = token_iter(src, 1)
    /\ result' = "lexed"
    /\ UNCHANGED <<scopes, env_ret, funcs, blocks, insert, stack, ast, limit,
                   src, program>>

\* The offsets of src between the end of a token and the start of the next.
Boundaries ==
    {p \in 0..Len(src) :
        \E k \in 1..(Len(tokens) - 1) :
            tokens[k].span[2] <= p /\ p <= tokens[k + 1].span[1]}

\* The texts src becomes with a filler put in at a boundary.
Fillings(fillers) ==
    {SubSeq(src, 1, p) \o filler \o SubSeq(src, p + 1, Len(src)) :
        p \in Boundaries, filler \in fillers}

\* parse's token_iter over src with whitespace put in between two tokens.
LexWithWhitespace ==
    /\ result = "lexed"
    /\ \E s \in Fillings(WhitespaceFillers) :
          /\ src' = s
          /\ tokens' = token_iter(s, 1)
    /\ result' = "filled"
    /\ UNCHANGED <<scopes, env_ret, funcs, blocks, insert, stack, ast, limit,
                   program>>

\* parse's token_iter over src with a comment put in between two tokens.
LexWithComment ==
    /\ result = "lexed"
    /\ \E s \in Fillings(CommentFillers) :
          /\ src' = s
          /\ tokens' = token_iter(s, 1)
    /\ result' = "filled"
    /\ UNCHANGED <<scopes, env_ret, funcs, blocks, insert, stack, ast, limit,
                   program>>

NextLex ==
    \/ Lex
    \/ LexWithWhitespace
    \/ LexWithComment
    \/ Parse

SpecLex == InitLex /\ [][NextLex]_vars

(***************************************************************************)
(* Precedence and associativity.                                           *)
(***************************************************************************)
\* The tokens of expressions.
ExprTokens == {"Integer", "LParen", "RParen", "Sub", "Add", "Mul", "Div"}

\* How many parentheses opened from lo on are open before place k.
Depth(ts, lo, k) ==
    Cardinality({j \in lo..(k - 1) : ts[j].t = "LParen"})
    - Cardinality({j \in lo..(k - 1) : ts[j].t = "RParen"})

\* The operators of ops in lo..hi that are outside every parenthesis and
\* stand after the end of an operand, which makes them binary.
BinaryAt(ts, lo, hi, ops) ==
    {k \in (lo + 1)..hi :
        /\ ts[k].t \in ops
        /\ Depth(ts, lo, k) = 0
        /\ ts[k - 1].t \in {"Integer", "RParen"}}

Greatest(S) == CHOOSE k \in S : \A j \in S : j <= k

RECURSIVE Reference(_, _, _)
\* The reference tree of the tokens lo..hi, if they are an expression: split
\* at the last binary + or - outside parentheses, if there is none at the
\* last binary * or /, the left part being the left operand; a text with no
\* binary operator outside parentheses is a minus before a literal or a
\* parenthesis, a literal, or an expression in parentheses.
Reference(ts, lo, hi) ==
    LET additive == BinaryAt(ts, lo, hi, {"Add", "Sub"})
        multiplicative == BinaryAt(ts, lo, hi, {"Mul", "Div"})
        split(k) ==
            LET l == Reference(ts, lo, k - 1)
                r == Reference(ts, k + 1, hi)
            IN  IF l.ok /\ r.ok
                THEN [ok |-> TRUE, val |-> BinOp(l.val, ts[k].t, r.val)]
                ELSE [ok |-> FALSE, val |-> << >>]
    IN
    IF lo > hi THEN [ok |-> FALSE, val |-> << >>]
    ELSE IF additive # {} THEN split(Greatest(additive))
    ELSE IF multiplicative # {} THEN split(Greatest(multiplicative))
    ELSE IF ts[lo].t = "Sub"
         THEN LET operand == Reference(ts, lo + 1, hi) IN
              IF lo < hi /\ ts[lo + 1].t # "Sub" /\ operand.ok
              THEN [ok |-> TRUE, val |-> UnaryOp("Neg", operand.val)]
              ELSE [ok |-> FALSE, val |-> << >>]
    ELSE IF ts[lo].t = "Integer"
         THEN [ok |-> lo = hi, val |-> IntLit(parse_integer(ts[lo].v))]
    ELSE IF /\ ts[lo].t = "LParen"
            /\ ts[hi].t = "RParen"
            /\ \A k \in (lo + 1)..hi : Depth(ts, lo, k) > 0
         THEN Reference(ts, lo + 1, hi - 1)
    ELSE [ok |-> FALSE, val |-> << >>]

\* C15: for every sequence of integer literals, parentheses and + - * /
\* given to the parser, the Program it returns is the one tail expression
\* whose tree is the reference tree, in which a minus before an operand
\* binds tighter than a binary operator, * and / tighter than + and -,
\* and operators of one level group to the left; and it returns errors when
\* the sequence is not empty and has no reference tree.
C15_ParsesAsReference ==
    (result # "lexed" /\ \A k \in 1..Len(tokens) : tokens[k].t \in ExprTokens)
    =>
        LET ref == Reference(tokens, 1, Len(tokens)) IN
        /\ ref.ok => /\ program.ok
                     /\ program.statements = <<Expr(ref.val)>>
        /\ (~ref.ok /\ tokens # << >>) => ~program.ok

\* `2 + 3 * 2` was parsed as 2 + (3 * 2).
C15_Witness ==
    /\ result = "parsed"
    /\ Len(tokens) = 5
    /\ tokens[2].t = "Add"
    /\ tokens[4].t = "Mul"
    /\ program.statements
         = <<Expr(BinOp(IntLit(2), "Add", BinOp(IntLit(3), "Mul", IntLit(2))))>>

\* `-2 * 3` was parsed as (-2) * 3.
C15_NegReached ==
    /\ result = "parsed"
    /\ program.statements
         = <<Expr(BinOp(UnaryOp("Neg", IntLit(2)), "Mul", IntLit(3)))>>

\* `2 - 3 - 2` was parsed as (2 - 3) - 2.
C15_LeftReached ==
    /\ result = "parsed"
    /\ Len(tokens) = 5
    /\ program.statements
         = <<Expr(BinOp(BinOp(IntLit(2), "Sub", IntLit(3)), "Sub", IntLit(2)))>>

(***************************************************************************)
(* Statement lists.                                                        *)
(***************************************************************************)
RECURSIVE TailOnlyLast(_)
\* In the statement list and in every function body in it, a Stmt::Expr is
\* the last element, and the elements are the three statements the grammar
\* has.
TailOnlyLast(list) ==
    \A i \in 1..Len(list) :
        /\ list[i].s \in {"FnDecl", "ExprStmt", "Expr"}
        /\ list[i].s = "Expr" => i = Len(list)
        /\ list[i].s = "FnDecl" => TailOnlyLast(list[i].body)

RECURSIVE CountExprStmt(_)
\* The number of Stmt::ExprStmt in the statement list and the bodies in it.
CountExprStmt(list) ==
    IF list = << >> THEN 0
    ELSE CountExprStmt(Front(list))
         + (CASE Last(list).s = "ExprStmt" -> 1
              [] Last(list).s = "FnDecl" -> CountExprStmt(Last(list).body)
              [] OTHER -> 0)

\* C16: in every Program the parser returns, a tail expression (Stmt::Expr)
\* is the last element of its statement list, at the top level and in
\* every function body, and every expression before it is a Stmt::ExprStmt
\* that took a ";": there are as many of them as ";" tokens.
C16_TailExprOnlyLast ==
    result = "parsed" =>
        /\ program.ok
        /\ TailOnlyLast(program.statements)
        /\ CountExprStmt(program.statements)
             = Cardinality({k \in 1..Len(tokens) : tokens[k].t = "Semicolon"})

\* `fn f(x: i32) -> i32 { 2; 3 }` was parsed: the body is 2; and then 3.
C16_Witness ==
    /\ result = "parsed"
    /\ Len(program.statements) = 1
    /\ program.statements[1].s = "FnDecl"
    /\ program.statements[1].body = <<ExprStmt(IntLit(2)), Expr(IntLit(3))>>

\* `2; 3; 2` was parsed: two expression statements and the tail expression.
C16_TopLevelReached ==
    /\ result = "parsed"
    /\ program.statements
         = <<ExprStmt(IntLit(2)), ExprStmt(IntLit(3)), Expr(IntLit(2))>>

(***************************************************************************)
(* Unrecognized characters.                                                *)
(***************************************************************************)
\* The character at place i of src starts no token and is part of none: it
\* is not of an identifier or an integer, not whitespace, not a token of one
\* character, and not the ">" of a "->".
Unrecognized(i) ==
    /\ src[i] \notin IdentifierRest \cup Whitespace \cup {"-"}
    /\ Punctuation(src[i]) = "none"
    /\ ~(src[i] = ">" /\ i > 1 /\ src[i - 1] = "-")

\* The tokens whose span holds the character at place i.
TokensAt(i) ==
    {k \in 1..Len(tokens) : tokens[k].span[1] < i /\ i <= tokens[k].span[2]}

\* C17: once src is lexed every unrecognized character is in an error
\* token, every character that is not whitespace is in exactly one
\* token, also after an error token, and the tokens are in the order of the
\* text; and when there is an error token parse returns errors and no
\* Program.
C17_ErrorTokenNotFatal ==
    result # "source" =>
        /\ \A i \in 1..Len(src) :
              /\ Unrecognized(i) =>
                    \E k \in TokensAt(i) : tokens[k].t = "Error"
              /\ src[i] \notin Whitespace => Cardinality(TokensAt(i)) = 1
              /\ ~Unrecognized(i) =>
                    \A k \in TokensAt(i) : tokens[k].t # "Error"
        /\ \A k \in 1..(Len(tokens) - 1) :
              tokens[k].span[2] <= tokens[k + 1].span[1]
        /\ ((\E k \in 1..Len(tokens) : tokens[k].t = "Error")
              /\ result \in {"parsed", "ParseError"}) =>
              /\ result = "ParseError"
              /\ ~program.ok
              /\ program.statements = << >>
              /\ program.errors > 0

\* `1;$1` was given to parse: the tokens are 1 ; <error> 1, and parse
\* returned errors; without the `$` they are the Program `1; 1`.
C17_Witness ==
    /\ result = "ParseError"
    /\ src = <<"1", ";", "$", "1">>
    /\ Len(tokens) = 4
    /\ tokens[3] = Token("Error", << >>, 2, 3)
    /\ tokens[4] = Token("Integer", <<"1">>, 3, 4)
    /\ parser(<<tokens[1], tokens[2], tokens[4]>>).ok

(***************************************************************************)
(* Whitespace and comments.                                                *)
(***************************************************************************)
\* The tokens without their spans.
Texts(ts) == [k \in 1..Len(ts) |-> <<ts[k].t, ts[k].v>>]

\* C18: whitespace and comments are discarded by the lexer: the tokens of
\* a source with whitespace or a comment put in between two tokens are the
\* tokens of the source without it.
C18_Step ==
    (result = "lexed" /\ result' = "filled") => Texts(tokens') = Texts(tokens)

C18_FillersDiscarded == [][C18_Step]_vars

\* The same of whitespace alone: a run of the characters of [ \t\f\n] put
\* in between two tokens leaves the tokens as they are.
C18_WhitespaceStep ==
    (result = "lexed" /\ result' = "filled"
       /\ src' \in Fillings(WhitespaceFillers))
    => Texts(tokens') = Texts(tokens)

C18_WhitespaceDiscarded == [][C18_WhitespaceStep]_vars

\* `1;` with a line comment between the two tokens was lexed: the comment's
\* characters are tokens.
C18_CommentReached ==
    /\ result = "filled"
    /\ src = <<"1", "/", "/", "c", "\n", ";">>
    /\ Texts(tokens) = <<<<"Integer", <<"1">>>>, <<"Div", << >>>>,
                         <<"Div", << >>>>, <<"Identifier", <<"c">>>>,
                         <<"Semicolon", << >>>>>>

(***************************************************************************)
(* The depth of the scope stack around gen_block.                          *)
(***************************************************************************)
\* The gen_block calls in progress.
BlockCalls == {j \in 1..Len(stack) : stack[j].k = "block"}

\* The depth env.scopes had when the gen_block of frame j was entered: the
\* scope of Env::new, one scope for every gen_block in progress around it
\* and one for the parameters of every function being lowered around it.
EntryDepth(j) ==
    1 + Cardinality({i \in 1..(j - 1) : stack[i].k \in {"block", "fn"}})

\* The gen_block calls that return in this step: the one at the top when
\* its loop ends, every one in progress when a statement fails.
BlocksLeft == {j \in BlockCalls : j > Len(stack')}

\* In this step every gen_block still in progress keeps the scopes under
\* its own as they were, and the outermost gen_block that returns leaves
\* env.scopes as it was when that gen_block was entered.
ScopesKept(left) ==
    /\ scopes' # << >>
    /\ \A j \in BlockCalls \ left :
          /\ Len(scopes') > EntryDepth(j)
          /\ SubSeq(scopes', 1, EntryDepth(j))
                = SubSeq(scopes, 1, EntryDepth(j))
    /\ left # {} =>
          LET j == CHOOSE k \in left : \A m \in left : k <= m
          IN  scopes' = SubSeq(scopes, 1, EntryDepth(j))

\* C21: a scope is pushed on entering every block and popped on leaving it:
\* on every return from gen_block, a return with an error included, the
\* scope stack has the depth and, in the surviving scopes, the bindings it
\* had when gen_block was entered, and the stack is never empty.
C21_Step == ScopesKept(BlocksLeft)

C21_ScopesBalanced == [](scopes # << >>) /\ [][C21_Step]_vars

\* The same of the returns without an error alone.
C21_OkStep == ScopesKept(IF result' = "running" THEN BlocksLeft ELSE {})

C21_BalancedWithoutError == [](scopes # << >>) /\ [][C21_OkStep]_vars

\* A statement of a then-branch inside a function body failed: gen_block
\* was left three times with an error and five scopes are on the stack.
C21_ErrorReached ==
    /\ result \notin {"new", "running", "ok", "VerificationFailed"}
    /\ stack = << >>
    /\ Len(scopes) = 5

\* The gen_block of a function body has returned without an error to the
\* gen_block of the program, where a variable had been declared before.
C21_ReturnReached ==
    /\ Lowering
    /\ Top.path = << >>
    /\ Len(funcs) = 2
    /\ \E q \in DOMAIN ast : Len(q) = 3
    /\ Len(scopes) = 2
    /\ scopes[2] # EmptyMap

(***************************************************************************)
(* Terminators and the instructions after them.                            *)
(***************************************************************************)
\* The places of the terminators of a block.
TerminatorsIn(bl) ==
    {i \in 1..Len(bl.instrs) : bl.instrs[i].op \in Terminators}

\* gen_program has returned Ok.
Produced ==
    \/ result = "running" /\ stack = << >>
    \/ result \in {"ok", "VerificationFailed"}

\* Every block of every function holds one terminator, its last instruction.
C22_State ==
    Produced =>
        \A f \in 1..Len(funcs) :
            \A j \in 1..Len(funcs[f].blocks) :
                LET bl == blocks[funcs[f].blocks[j]] IN
                TerminatorsIn(bl) = {Len(bl.instrs)}

\* Nothing is built into a block that holds a terminator.
C22_Step ==
    \A b \in 1..Len(blocks) :
        TerminatorsIn(blocks[b]) # {} => blocks'[b].instrs = blocks[b].instrs

\* C22: a return ends its basic block: in every IR unit gen_program
\* produces without error each basic block holds exactly one terminator
\* and it is the block's last instruction, and no instruction is ever built
\* into a block after its terminator, whatever follows a return in the
\* source block.
C22_ReturnEndsBlock == [](C22_State) /\ [][C22_Step]_vars

\* The part about the return alone: a Stmt::Return that lowers builds a
\* return of its value as the last instruction of the block the builder is
\* at, and leaves the builder there.
C22_ReturnStep ==
    (/\ Lowering
     /\ result' = "running"
     /\ StmtPath \in DOMAIN ast' \ DOMAIN ast
     /\ ast'[StmtPath].s = "Return")
    => /\ insert' = insert
       /\ Len(blocks'[insert].instrs) > Len(blocks[insert].instrs)
       /\ Last(blocks'[insert].instrs).op = "ret"
       /\ \A b \in 1..Len(blocks) : b # insert => blocks'[b] = blocks[b]

C22_ReturnBuilt == [][C22_ReturnStep]_vars

\* gen_program has returned Ok for a Program with a statement after a
\* return: the entry block of main holds an instruction after its return.
C22_AfterReturnReached ==
    /\ result = "running"
    /\ stack = << >>
    /\ \E i \in TerminatorsIn(blocks[1]) :
          /\ blocks[1].instrs[i].op = "ret"
          /\ i < Len(blocks[1].instrs)

(***************************************************************************)
(* The slots a function's loads and stores address.                        *)
(***************************************************************************)
\* The loads and stores built so far, as <<block, place>>.
Accesses ==
    {a \in UNION {{<<b, i>> : i \in 1..Len(blocks[b].instrs)} :
                     b \in 1..Len(blocks)} :
        blocks[a[1]].instrs[a[2]].op \in {"load", "store"}}

\* The function an instruction built so far is in.
FnOf(a) == blocks[a[1]].fn

\* The slot a load or a store addresses.
PtrOf(a) == blocks[a[1]].instrs[a[2]].ptr

\* C23: sibling and nested functions are lowered without interference:
\* every load or store built into a function's body addresses a slot
\* allocated in that same function, never one of the enclosing function or
\* of the implicit main.
C23_OwnSlotsOnly ==
    \A a \in Accesses : PtrOf(a) \in SlotsOf(funcs, blocks, FnOf(a))

\* Function g is f, or its declaration is around the declaration of f
\* (main is around every declaration).
Around(g, f) ==
    \/ g = f
    \/ g = 1
    \/ /\ Len(funcs[g].decl) < Len(funcs[f].decl)
       /\ SubSeq(funcs[f].decl, 1, Len(funcs[g].decl)) = funcs[g].decl

\* The part about siblings alone: a load or a store addresses a slot of
\* its own function or of a function declared around it, never one of a
\* function that was lowered before or inside it.
C23_NoSlotOfSibling ==
    \A a \in Accesses :
        \E g \in 1..Len(funcs) :
            /\ Around(g, FnOf(a))
            /\ PtrOf(a) \in SlotsOf(funcs, blocks, g)

\* `let y = 3; fn f(x: i32) -> i32 { y }` was lowered without an error:
\* the load in f's entry block addresses the slot of main's y.
C23_OuterSlotReached ==
    /\ result = "running"
    /\ stack = << >>
    /\ DOMAIN ast = {<<1>>, <<2>>, <<2, 1, 1>>}
    /\ ast[<<1>>] = LetDecl("y", NoType, IntLit(3))
    /\ ast[<<2, 1, 1>>] = Expr(VarRef("y"))
    /\ \E a \in Accesses :
          /\ FnOf(a) = 2
          /\ PtrOf(a) = <<1>>
          /\ <<1>> \in SlotsOf(funcs, blocks, 1)

\* Two functions were declared one after the other and the second one
\* reads its parameter: the load addresses the slot of its own entry block.
C23_SiblingReached ==
    /\ result = "running"
    /\ Len(funcs) = 3
    /\ funcs[2].decl = <<1>>
    /\ funcs[3].decl = <<2>>
    /\ \E a \in Accesses : FnOf(a) = 3 /\ PtrOf(a) = <<2, 0, 1>>

(***************************************************************************)
(* Unary minus.                                                            *)
(***************************************************************************)
\* The step lowers a tail expression that is the negation of an operand
\* which gen_expr lowers to a value of one of the types tys.
LowersNeg(tys) ==
    /\ Lowering
    /\ StmtPath \notin DOMAIN ast
    /\ StmtPath \in DOMAIN ast'
    /\ ast'[StmtPath].s = "Expr"
    /\ ast'[StmtPath].expr.e = "UnaryOp"
    /\ ast'[StmtPath].expr.op = "Neg"
    /\ LET v == gen_expr(scopes, funcs, insert, NextIndex,
                         ast'[StmtPath].expr.expr)
       IN  v.err = "none" /\ v.val.ty \in tys

\* The negation is lowered without an error to the operand's instructions
\* and a subtraction of the operand from the zero of its own type, whose
\* value has that type.
NegFromZero ==
    LET v == gen_expr(scopes, funcs, insert, NextIndex,
                      ast'[StmtPath].expr.expr)
        sub == Appended[Len(Appended) - 1]
    IN  /\ result' = "running"
        /\ Len(Appended) = Len(v.out) + 2
        /\ SubSeq(Appended, 1, Len(v.out)) = v.out
        /\ sub.op = "sub"
        /\ sub.rhs = v.val
        /\ sub.lhs = Const(v.val.ty, 0)
        /\ sub.lhs.ty = sub.rhs.ty
        /\ Last(Appended).op = "ret"
        /\ Last(Appended).val.k = "inst"
        /\ Last(Appended).val.n = Len(blocks'[insert].instrs) - 1
        /\ Last(Appended).val.ty = v.val.ty

\* C24: unary minus is lowered as a subtraction from zero whose zero has
\* the operand's integer type: for every operand of type I32 or I64 the
\* result has the operand's type and both operands of the subtraction have
\* equal types.
C24_Step == LowersNeg({"i32", "i64"}) => NegFromZero

C24_NegFromTypedZero == [][C24_Step]_vars

\* The same of the operands of type I32 alone.
C24_StepI32 == LowersNeg({"i32"}) => NegFromZero

C24_NegI32FromZero == [][C24_StepI32]_vars

\* `var x: i64; -x` was lowered without an error: the subtraction has the
\* zero of i32 on the left and the loaded i64 on the right, and its value
\* is an i32.
C24_I64Reached ==
    /\ result = "running"
    /\ DOMAIN ast = {<<1>>, <<2>>}
    /\ ast[<<1>>] = VarDecl("x", "I64", NoExpr)
    /\ ast[<<2>>] = Expr(UnaryOp("Neg", VarRef("x")))
    /\ Len(blocks[1].instrs) = 5
    /\ blocks[1].instrs[4] = BinInst("sub", Const("i32", 0),
                                     InstVal("i64", 1, 3))
    /\ blocks[1].instrs[5] = Ret(InstVal("i32", 1, 4))

\* `var x: i32 = 10; -x` was compiled and main returns -10.
C24_I32Reached ==
    /\ result = "ok"
    /\ DOMAIN ast = {<<1>>, <<2>>}
    /\ ast[<<1>>] = VarDecl("x", "I32", IntLit(10))
    /\ ast[<<2>>] = Expr(UnaryOp("Neg", VarRef("x")))
    /\ Run(funcs, blocks, 1, << >>).val = -10

====
